---------------------------- MODULE Spec2Model ----------------------------
(* Verification model of the apollo-air1-exporter: the EPA AQI engine     *)
(* (src/src/aqi.rs), the sensor probe (src/src/apollo.rs), the metrics    *)
(* store (src/src/metrics.rs) and the polling loop (src/src/main.rs).     *)
(*                                                                        *)
(* Numbers.  Every f64 concentration or sensor value is carried as an     *)
(* integer number of hundredths (12.34 is 1234).  AQI indices are         *)
(* integer-valued floats in the code and plain integers here.  The        *)
(* integer forms of truncate_pm25, truncate_pm10 and of the rounded       *)
(* interpolation were compared with the IEEE-754 double computation of    *)
(* the source on every hundredth from -3.00 to 1003.00: they agree.       *)
(*                                                                        *)
(* Option<T> is a set with at most one element: None is {} and Some(x)    *)
(* is {x}.                                                                *)
EXTENDS Integers, Sequences, FiniteSets, TLC

VARIABLES
    \* one call of calculate_aqi
    pm25_ugm3,      \* argument pm25_ugm3 (Option, hundredths)
    pm10_ugm3,      \* argument pm10_ugm3 (Option, hundredths)
    aqi_locals,     \* the locals pm25_aqi and pm10_aqi
    aqi_out,        \* <<"pending">> or <<"returned", Option<AqiResult>>>
    \* one call of an ApolloClient method against one device
    probe_dev,      \* what the device answers to GET /sensor/{id}
    probe_out,      \* <<"pending">> or <<method, [requests, result]>>
    \* the exporter process
    devices,        \* per configured host, what the device answers now
    setup_i,        \* main: index of the next entry of get_device_names()
    device_clients, \* the registry: host -> display name
    poll_pc,        \* the polling task: where it is
    todo,           \* the polling task: registry entries not yet iterated
    metrics,        \* the Metrics store
    metrics_text,   \* the polling task: the text gather() returned
    shared_metrics, \* the published snapshot (Arc<RwLock<String>>)
    ticks,          \* number of ticks started
    tick_log,       \* per host, what this tick did: "none", "ok" or "down"
    last_aqi,       \* per host, the last AqiResult computed (Option)
    \* a second caller of the Metrics API, concurrent with an updater
    upd,            \* the updater: its position inside update_aqi, its arguments
    gathered,       \* the text the last concurrent gather() returned, and the
                    \* device keys with tracked AQI state at that moment
    \* the polling task on the clock, the registry lock and a scrape reader
    now,            \* seconds since the polling task was spawned
    deadline,       \* the Interval: the instant its next tick() completes
    clients_lock,   \* the Mutex of device_clients: "free" or its holder
    fetching,       \* the get_status call in flight (Option of its host)
    tick_times,     \* per tick started: the instant it was due and began
    snapshots,      \* every text the snapshot has held, oldest first
    scraped,        \* what the last call of metrics_handler returned (Option)
    \* one call of a text function: extract_unit or get_device_names
    fn_in,          \* the function called and its arguments
    fn_out          \* <<"pending">> or <<"returned", value>>

aqiVars == <<pm25_ugm3, pm10_ugm3, aqi_locals, aqi_out>>

probeVars == <<probe_dev, probe_out>>

progVars == <<devices, setup_i, device_clients, poll_pc, todo, metrics_text,
              shared_metrics, ticks, tick_log, last_aqi>>

storeVars == <<upd, gathered>>

timedVars == <<now, deadline, clients_lock, fetching, tick_times, snapshots, scraped>>

textVars == <<fn_in, fn_out>>

vars == <<pm25_ugm3, pm10_ugm3, aqi_locals, aqi_out, probe_dev, probe_out,
          devices, setup_i, device_clients, poll_pc, todo, metrics,
          metrics_text, shared_metrics, ticks, tick_log, last_aqi, upd, gathered,
          now, deadline, clients_lock, fetching, tick_times, snapshots, scraped,
          fn_in, fn_out>>

--------------------------------------------------------------------------
(* Option helpers *)

None == {}

Some(x) == {x}

Unwrap(o) == CHOOSE x \in o : TRUE

--------------------------------------------------------------------------
(* aqi.rs *)

\* AqiCategory::from_aqi: `aqi as u16` saturates at the ends of u16.
AsU16(x) == IF x < 0 THEN 0 ELSE IF x > 65535 THEN 65535 ELSE x

\* a plausible slip: the upper end of every range excluded
from_aqi_exclusive(aqi) ==
    LET n == AsU16(aqi)
    IN  IF n < 50 THEN "Good"
        ELSE IF n < 100 THEN "Moderate"
        ELSE IF n < 150 THEN "UnhealthyForSensitiveGroups"
        ELSE IF n < 200 THEN "Unhealthy"
        ELSE IF n < 300 THEN "VeryUnhealthy"
        ELSE "Hazardous"

\* the values are the variants of enum AqiCategory
from_aqi(aqi) ==
    LET n == AsU16(aqi)
    IN  IF n <= 50 THEN "Good"
        ELSE IF n <= 100 THEN "Moderate"
        ELSE IF n <= 150 THEN "UnhealthyForSensitiveGroups"
        ELSE IF n <= 200 THEN "Unhealthy"
        ELSE IF n <= 300 THEN "VeryUnhealthy"
        ELSE "Hazardous"

\* AqiCategory::as_str: the label text of a variant
as_str(category) ==
    CASE category = "Good" -> "Good"
      [] category = "Moderate" -> "Moderate"
      [] category = "UnhealthyForSensitiveGroups" -> "Unhealthy for Sensitive Groups"
      [] category = "Unhealthy" -> "Unhealthy"
      [] category = "VeryUnhealthy" -> "Very Unhealthy"
      [] category = "Hazardous" -> "Hazardous"

\* rows are <<bp_lo, bp_hi, i_lo, i_hi>>, concentrations in hundredths
PM25_BREAKPOINTS ==
    << <<0, 900, 0, 50>>,
       <<910, 3540, 51, 100>>,
       <<3550, 5540, 101, 150>>,
       <<5550, 12540, 151, 200>>,
       <<12550, 22540, 201, 300>>,
       <<22550, 32540, 301, 500>>,
       <<32550, 99990, 501, 999>> >>

PM10_BREAKPOINTS ==
    << <<0, 5400, 0, 50>>,
       <<5500, 15400, 51, 100>>,
       <<15500, 25400, 101, 150>>,
       <<25500, 35400, 151, 200>>,
       <<35500, 42400, 201, 300>>,
       <<42500, 60400, 301, 500>>,
       <<60500, 99900, 501, 999>> >>

\* a plausible slip: the concentration is looked up as it was read
truncate_skipped(value) == value

\* (value * 10.0).floor() / 10.0
truncate_pm25(value) == (value \div 10) * 10

\* value.floor()
truncate_pm10(value) == (value \div 100) * 100

\* f64::round of the rational num/den (den > 0): nearest, ties away from zero
RoundDiv(num, den) ==
    IF num >= 0 THEN (2 * num + den) \div (2 * den)
    ELSE 0 - ((2 * (0 - num) + den) \div (2 * den))

\* a plausible slip: the upper bound of a row excluded
RECURSIVE ScanBreakpointsExclusive(_, _, _)
ScanBreakpointsExclusive(concentration, breakpoints, i) ==
    IF i > Len(breakpoints) THEN None
    ELSE LET bp_lo == breakpoints[i][1]
             bp_hi == breakpoints[i][2]
             i_lo  == breakpoints[i][3]
             i_hi  == breakpoints[i][4]
         IN  IF concentration >= bp_lo /\ concentration < bp_hi
             THEN Some(RoundDiv((i_hi - i_lo) * (concentration - bp_lo)
                                    + i_lo * (bp_hi - bp_lo),
                                bp_hi - bp_lo))
             ELSE ScanBreakpointsExclusive(concentration, breakpoints, i + 1)

\* the `for` loop of calculate_pollutant_aqi from row i on
RECURSIVE ScanBreakpoints(_, _, _)
ScanBreakpoints(concentration, breakpoints, i) ==
    IF i > Len(breakpoints) THEN None
    ELSE LET bp_lo == breakpoints[i][1]
             bp_hi == breakpoints[i][2]
             i_lo  == breakpoints[i][3]
             i_hi  == breakpoints[i][4]
         IN  IF concentration >= bp_lo /\ concentration <= bp_hi
             THEN Some(RoundDiv((i_hi - i_lo) * (concentration - bp_lo)
                                    + i_lo * (bp_hi - bp_lo),
                                bp_hi - bp_lo))
             ELSE ScanBreakpoints(concentration, breakpoints, i + 1)

\* a plausible slip: no saturation above the last row
calculate_pollutant_aqi_unsaturated(concentration, breakpoints) ==
    ScanBreakpoints(concentration, breakpoints, 1)

calculate_pollutant_aqi(concentration, breakpoints) ==
    LET hit == ScanBreakpoints(concentration, breakpoints, 1)
    IN  IF hit # None THEN hit
        ELSE IF concentration > breakpoints[Len(breakpoints)][2]
             THEN Some(500)
             ELSE None

\* the two locals pm25_aqi and pm10_aqi of calculate_aqi
SubIndices(pm25, pm10) ==
    [pm25_aqi |-> UNION {calculate_pollutant_aqi(truncate_pm25(v), PM25_BREAKPOINTS) : v \in pm25},
     pm10_aqi |-> UNION {calculate_pollutant_aqi(truncate_pm10(v), PM10_BREAKPOINTS) : v \in pm10}]

\* a plausible slip: >= where the code compares with >
TakeIfGreaterOrEqual(acc, sub, name) ==
    IF sub # None /\ Unwrap(sub) >= acc.max_aqi
    THEN [max_aqi |-> Unwrap(sub), primary_pollutant |-> name]
    ELSE acc

\* `if let Some(aqi) = sub && aqi > max_aqi { max_aqi = aqi; primary = name }`
TakeIfGreater(acc, sub, name) ==
    IF sub # None /\ Unwrap(sub) > acc.max_aqi
    THEN [max_aqi |-> Unwrap(sub), primary_pollutant |-> name]
    ELSE acc

calculate_aqi(pm25, pm10) ==
    LET subs == SubIndices(pm25, pm10)
        acc0 == [max_aqi |-> 0, primary_pollutant |-> ""]
        acc1 == TakeIfGreater(acc0, subs.pm25_aqi, "PM2.5")
        acc2 == TakeIfGreater(acc1, subs.pm10_aqi, "PM10")
    IN  IF acc2.primary_pollutant = "" THEN None
        ELSE Some([aqi               |-> acc2.max_aqi,
                   category          |-> from_aqi(acc2.max_aqi),
                   primary_pollutant |-> acc2.primary_pollutant,
                   pm25_aqi          |-> subs.pm25_aqi,
                   pm10_aqi          |-> subs.pm10_aqi])

--------------------------------------------------------------------------
(* Maps: HashMap<K, V> and the label-indexed series of a GaugeVec are   *)
(* functions whose domain is the set of keys present.                   *)

EmptyMap == [k \in {} |-> 0]

MapPut(m, k, v) == [x \in DOMAIN m \cup {k} |-> IF x = k THEN v ELSE m[x]]

MapRemove(m, k) == [x \in DOMAIN m \ {k} |-> m[x]]

--------------------------------------------------------------------------
(* apollo.rs *)

\* <<sensor id, display name>>
KNOWN_SENSORS ==
    << <<"co2", "CO2">>,
       <<"sen55_temperature", "Temperature">>,
       <<"sen55_humidity", "Humidity">>,
       <<"pm__1_m_weight_concentration", "PM1.0">>,
       <<"pm__2_5_m_weight_concentration", "PM2.5">>,
       <<"pm__10_m_weight_concentration", "PM10">>,
       <<"sen55_voc", "VOC">>,
       <<"sen55_nox", "NOx">>,
       <<"dps310_pressure", "Pressure">>,
       <<"illuminance", "Illuminance">>,
       <<"esp_temperature", "ESP Temperature">>,
       <<"rssi", "WiFi RSSI">> >>

KnownIds == {KNOWN_SENSORS[i][1] : i \in 1..Len(KNOWN_SENSORS)}

\* every path /sensor/{id} the exporter requests
SensorIds == KnownIds \cup {"uptime"}

\* what a device can answer to GET /sensor/{id}: a 2xx answer with a JSON
\* body {"id", "value", "state"}, or one of the three failures get_sensor
\* tells apart (send error or timeout, non-2xx status, undecodable body)
FailureKinds == {"send_error", "http_status", "bad_json"}

\* get_sensor: Some(value) for a decoded 2xx answer, None for an Err
get_sensor(dev, sensor_id) ==
    IF dev[sensor_id].kind = "ok" THEN Some(dev[sensor_id].value) ELSE None

\* a plausible slip: the first failed channel ends the loop
RECURSIVE FetchSensorsUntilError(_, _, _)
FetchSensorsUntilError(dev, i, acc) ==
    IF i > Len(KNOWN_SENSORS) THEN acc
    ELSE LET sensor_id == KNOWN_SENSORS[i][1]
             data      == get_sensor(dev, sensor_id)
             asked     == Append(acc.requests, sensor_id)
         IN  IF data # None
             THEN FetchSensorsUntilError(dev, i + 1,
                      [requests |-> asked,
                       sensors  |-> MapPut(acc.sensors, sensor_id,
                                           [value |-> Unwrap(data),
                                            name  |-> KNOWN_SENSORS[i][2]])])
             ELSE [requests |-> asked, sensors |-> acc.sensors]

\* the `for` loop of get_status from entry i on; acc.requests is the list
\* of the requests sent, acc.sensors the HashMap built so far
RECURSIVE FetchSensors(_, _, _)
FetchSensors(dev, i, acc) ==
    IF i > Len(KNOWN_SENSORS) THEN acc
    ELSE LET sensor_id == KNOWN_SENSORS[i][1]
             data      == get_sensor(dev, sensor_id)
             asked     == Append(acc.requests, sensor_id)
         IN  IF data # None
             THEN FetchSensors(dev, i + 1,
                      [requests |-> asked,
                       sensors  |-> MapPut(acc.sensors, sensor_id,
                                           [value |-> Unwrap(data),
                                            name  |-> KNOWN_SENSORS[i][2]])])
             ELSE FetchSensors(dev, i + 1,
                      [requests |-> asked, sensors |-> acc.sensors])

\* get_status: the requests it sent and its Result<ApolloStatus>.  The
\* field `unit` of SensorValue is never read and is left out.
get_status(dev, device_name) ==
    LET got == FetchSensors(dev, 1, [requests |-> <<>>, sensors |-> EmptyMap])
    IN  [requests |-> got.requests,
         result   |-> IF DOMAIN got.sensors = {}
                      THEN <<"Err", "No sensors found on device">>
                      ELSE <<"Ok", [sensors     |-> got.sensors,
                                    device_name |-> device_name]>>]

\* a plausible slip: only the first channel of the chain is tried
test_connection_co2_only(dev) ==
    [requests |-> <<"co2">>, result |-> <<"Ok", get_sensor(dev, "co2") # None>>]

\* test_connection: co2, then esp_temperature, then uptime
test_connection(dev) ==
    IF get_sensor(dev, "co2") # None
    THEN [requests |-> <<"co2">>, result |-> <<"Ok", TRUE>>]
    ELSE IF get_sensor(dev, "esp_temperature") # None
    THEN [requests |-> <<"co2", "esp_temperature">>, result |-> <<"Ok", TRUE>>]
    ELSE IF get_sensor(dev, "uptime") # None
    THEN [requests |-> <<"co2", "esp_temperature", "uptime">>, result |-> <<"Ok", TRUE>>]
    ELSE [requests |-> <<"co2", "esp_temperature", "uptime">>, result |-> <<"Ok", FALSE>>]

--------------------------------------------------------------------------
(* metrics.rs *)

\* the GaugeVec / IntGaugeVec fields of struct Metrics
MetricFields ==
    {"device_up", "co2_ppm", "pm1_0_ugm3", "pm2_5_ugm3", "pm10_0_ugm3",
     "voc_index", "nox_index", "temperature_celsius", "humidity_percent",
     "pressure_hpa", "illuminance_lux", "esp_temperature_celsius",
     "wifi_rssi_dbm", "aqi", "aqi_pm25", "aqi_pm10", "aqi_info"}

\* Metrics::new: no series in any vector, no tracked AQI state
NewMetrics ==
    [gauges             |-> [f \in MetricFields |-> EmptyMap],
     previous_aqi_state |-> EmptyMap]

\* self.<field>.with_label_values(labels).set(value)
with_label_values_set(m, field, labels, value) ==
    [m EXCEPT !.gauges[field] = MapPut(@, labels, value)]

\* self.<field>.remove_label_values(labels), the Err of an absent series dropped
remove_label_values(m, field, labels) ==
    [m EXCEPT !.gauges[field] = MapRemove(@, labels)]

\* `value as i64` of a value carried in hundredths: toward zero
AsI64(value) ==
    IF value >= 0 THEN value \div 100 ELSE 0 - ((0 - value) \div 100)

\* the arms of `match sensor_id.as_str()`: the field an id is folded into
SensorField(sensor_id) ==
    CASE sensor_id = "co2" -> "co2_ppm"
      [] sensor_id = "pm__1_m_weight_concentration" -> "pm1_0_ugm3"
      [] sensor_id = "pm__2_5_m_weight_concentration" -> "pm2_5_ugm3"
      [] sensor_id = "pm__10_m_weight_concentration" -> "pm10_0_ugm3"
      [] sensor_id = "sen55_voc" -> "voc_index"
      [] sensor_id = "sen55_nox" -> "nox_index"
      [] sensor_id = "sen55_temperature" -> "temperature_celsius"
      [] sensor_id = "sen55_humidity" -> "humidity_percent"
      [] sensor_id = "dps310_pressure" -> "pressure_hpa"
      [] sensor_id = "illuminance" -> "illuminance_lux"
      [] sensor_id = "esp_temperature" -> "esp_temperature_celsius"
      [] sensor_id = "rssi" -> "wifi_rssi_dbm"
      [] OTHER -> "unknown"

\* one iteration of `for (sensor_id, sensor_value) in &status.sensors`
FoldSensor(m, device, host, sensor_id, value) ==
    LET field == SensorField(sensor_id)
    IN  IF field = "unknown" THEN m
        ELSE with_label_values_set(m, field, <<device, host>>,
                 IF field = "wifi_rssi_dbm" THEN AsI64(value) ELSE value)

\* the whole loop; every id is folded into its own field, so the order
\* in which the HashMap yields its entries does not matter
RECURSIVE FoldSensors(_, _, _, _, _)
FoldSensors(m, device, host, sensors, ids) ==
    IF ids = {} THEN m
    ELSE LET sensor_id == CHOOSE id \in ids : TRUE
         IN  FoldSensors(FoldSensor(m, device, host, sensor_id, sensors[sensor_id].value),
                         device, host, sensors, ids \ {sensor_id})

\* pm25_value / pm10_value of update_device
PmValue(sensors, sensor_id) ==
    IF sensor_id \in DOMAIN sensors THEN Some(sensors[sensor_id].value) ELSE None

\* a plausible slip: the stale info series is never removed
UaKeepStale(m, device, host, result) == m

\* a plausible slip: the stale series is removed by category and
\* pollutant alone, for every device that carries them
UaRemoveStaleOfAll(m, device, host, result) ==
    LET key == <<device, host>>
    IN  IF /\ key \in DOMAIN m.previous_aqi_state
           /\ \/ m.previous_aqi_state[key].category # result.category
              \/ m.previous_aqi_state[key].primary_pollutant # result.primary_pollutant
        THEN [m EXCEPT !.gauges["aqi_info"] =
                 [l \in {x \in DOMAIN @ :
                            \/ x[3] # as_str(m.previous_aqi_state[key].category)
                            \/ x[4] # m.previous_aqi_state[key].primary_pollutant}
                     |-> @[l]]]
        ELSE m

\* update_aqi, lines 306-324: under the read guard of previous_aqi_state,
\* remove the previous info series if category or pollutant changed
UaRemoveStale(m, device, host, result) ==
    LET key == <<device, host>>
    IN  IF /\ key \in DOMAIN m.previous_aqi_state
           /\ \/ m.previous_aqi_state[key].category # result.category
              \/ m.previous_aqi_state[key].primary_pollutant # result.primary_pollutant
        THEN remove_label_values(m, "aqi_info",
                 <<device, host, as_str(m.previous_aqi_state[key].category),
                   m.previous_aqi_state[key].primary_pollutant>>)
        ELSE m

\* update_aqi, line 327
UaSetAqi(m, device, host, result) ==
    with_label_values_set(m, "aqi", <<device, host>>, result.aqi)

\* update_aqi, lines 330-332
UaSetPm25(m, device, host, result) ==
    IF result.pm25_aqi # None
    THEN with_label_values_set(m, "aqi_pm25", <<device, host>>, Unwrap(result.pm25_aqi))
    ELSE m

\* a plausible slip: without a PM10 sub-index the series of the device
\* is removed
UaSetPm10Clearing(m, device, host, result) ==
    IF result.pm10_aqi # None
    THEN with_label_values_set(m, "aqi_pm10", <<device, host>>, Unwrap(result.pm10_aqi))
    ELSE remove_label_values(m, "aqi_pm10", <<device, host>>)

\* a plausible slip: the PM10 sub-index series is never written
UaSetPm10Skipped(m, device, host, result) == m

\* update_aqi, lines 333-335
UaSetPm10(m, device, host, result) ==
    IF result.pm10_aqi # None
    THEN with_label_values_set(m, "aqi_pm10", <<device, host>>, Unwrap(result.pm10_aqi))
    ELSE m

\* update_aqi, lines 338-340: the info series, always 1.0 (100 hundredths)
UaSetInfo(m, device, host, result) ==
    with_label_values_set(m, "aqi_info",
        <<device, host, as_str(result.category), result.primary_pollutant>>, 100)

\* update_aqi, lines 343-352: under the write guard
UaStoreState(m, device, host, result) ==
    [m EXCEPT !.previous_aqi_state =
        MapPut(@, <<device, host>>,
               [category          |-> result.category,
                primary_pollutant |-> result.primary_pollutant])]

update_aqi(m, device, host, result) ==
    LET m1 == UaRemoveStale(m, device, host, result)
        m2 == UaSetAqi(m1, device, host, result)
        m3 == UaSetPm25(m2, device, host, result)
        m4 == UaSetPm10(m3, device, host, result)
        m5 == UaSetInfo(m4, device, host, result)
    IN  UaStoreState(m5, device, host, result)

\* a plausible slip: a channel id outside the match makes update_device
\* give up before anything is folded
UdFoldReadingsRejecting(m, host, status) ==
    IF \E id \in DOMAIN status.sensors : SensorField(id) = "unknown"
    THEN m
    ELSE FoldSensors(with_label_values_set(m, "device_up", <<status.device_name, host>>, 1),
                     status.device_name, host, status.sensors, DOMAIN status.sensors)

\* a plausible slip: a device once marked down stays down, the fold does
\* not set device_up back to 1
UdFoldReadingsKeepDown(m, host, status) ==
    FoldSensors(IF <<status.device_name, host>> \in DOMAIN m.gauges["device_up"]
                THEN m
                ELSE with_label_values_set(m, "device_up", <<status.device_name, host>>, 1),
                status.device_name, host, status.sensors, DOMAIN status.sensors)

\* update_device up to the AQI step (lines 213-291): device_up and the
\* raw channels
UdFoldReadings(m, host, status) ==
    FoldSensors(with_label_values_set(m, "device_up", <<status.device_name, host>>, 1),
                status.device_name, host, status.sensors, DOMAIN status.sensors)

\* the argument of the AQI step (line 294)
UdAqiResult(status) ==
    calculate_aqi(PmValue(status.sensors, "pm__2_5_m_weight_concentration"),
                  PmValue(status.sensors, "pm__10_m_weight_concentration"))

\* a plausible slip: without an AQI result the tracked state of the
\* device is forgotten and its AQI series are dropped
update_device_resetting(m, host, status) ==
    LET m1         == UdFoldReadings(m, host, status)
        aqi_result == UdAqiResult(status)
        key        == <<status.device_name, host>>
    IN  IF aqi_result # None
        THEN update_aqi(m1, status.device_name, host, Unwrap(aqi_result))
        ELSE [m1 EXCEPT !.previous_aqi_state = MapRemove(@, key),
                        !.gauges["aqi"] = MapRemove(@, key)]

\* update_device; it returns Ok(()) on every path
update_device(m, host, status) ==
    LET m1         == UdFoldReadings(m, host, status)
        aqi_result == UdAqiResult(status)
    IN  IF aqi_result # None
        THEN update_aqi(m1, status.device_name, host, Unwrap(aqi_result))
        ELSE m1

\* a plausible slip: marking a device down also drops its series
mark_device_down_clearing(m, device_name, host) ==
    [m EXCEPT !.gauges =
        [f \in MetricFields |->
            IF f = "device_up" THEN MapPut(m.gauges[f], <<device_name, host>>, 0)
            ELSE [l \in {x \in DOMAIN m.gauges[f] : <<x[1], x[2]>> # <<device_name, host>>}
                     |-> m.gauges[f][l]]]]

mark_device_down(m, device_name, host) ==
    with_label_values_set(m, "device_up", <<device_name, host>>, 0)

\* gather: the text is the set of its sample lines <<field, labels, value>>
\* (the exposition name is "apollo_air1_" followed by the field); a
\* vector without series contributes nothing, so an empty store renders
\* as the empty text
gather(m) ==
    UNION {{<<f, l, m.gauges[f][l]>> : l \in DOMAIN m.gauges[f]} : f \in MetricFields}

--------------------------------------------------------------------------
(* Each specification below drives one part and leaves the others idle *)

AqiIdle ==
    /\ pm25_ugm3 = None
    /\ pm10_ugm3 = None
    /\ aqi_locals = [pm25_aqi |-> None, pm10_aqi |-> None]
    /\ aqi_out = <<"pending">>

ProbeIdle ==
    /\ probe_dev = EmptyMap
    /\ probe_out = <<"pending">>

ProgramIdle ==
    /\ devices = EmptyMap
    /\ setup_i = 0
    /\ device_clients = EmptyMap
    /\ poll_pc = "not_spawned"
    /\ todo = {}
    /\ metrics = NewMetrics
    /\ metrics_text = {}
    /\ shared_metrics = {}
    /\ ticks = 0
    /\ tick_log = EmptyMap
    /\ last_aqi = EmptyMap

StoreIdle ==
    /\ upd = [pc |-> "idle", calls |-> 0]
    /\ gathered = [text |-> {}, tracked |-> {}]

TimedIdle ==
    /\ now = 0
    /\ deadline = 0
    /\ clients_lock = "free"
    /\ fetching = None
    /\ tick_times = <<>>
    /\ snapshots = <<>>
    /\ scraped = None

TextIdle ==
    /\ fn_in = [fn |-> "none"]
    /\ fn_out = <<"pending">>

--------------------------------------------------------------------------
(* Inputs of the AQI engine *)

\* PM2.5 is enumerated from -BelowZeroTenths/10 to MaxTenth25/10 ug/m3
BelowZeroTenths == 12

MaxTenth25 == 10010

\* PM10 is enumerated from -BelowZeroUnits to MaxUnit10 ug/m3
BelowZeroUnits == 2

MaxUnit10 == 1003

\* offsets (hundredths) added to every breakpoint bound for the pair grid
NearOffsets == {-100, -10, -1, 0, 1, 9, 10, 90, 99, 100}

Bounds(breakpoints) ==
    {breakpoints[i][j] : i \in 1..Len(breakpoints), j \in 1..2}

\* every tenth, once exactly and once 9 hundredths above
Full25 == {10 * k + o : k \in (0 - BelowZeroTenths)..MaxTenth25, o \in {0, 9}}

\* every integer, once exactly and once 90 hundredths above
Full10 == {100 * k + o : k \in (0 - BelowZeroUnits)..MaxUnit10, o \in {0, 90}}

Grid25 == {b + o : b \in Bounds(PM25_BREAKPOINTS), o \in NearOffsets}
              \cup {-5, 0, 500, 1234, 1239, 1500, 2000, MaxTenth25 * 10}

Grid10 == {b + o : b \in Bounds(PM10_BREAKPOINTS), o \in NearOffsets}
              \cup {-5, 0, 2500, 3000, 5490, 10000, 10070, MaxUnit10 * 100}

AqiInputs ==
    /\ \/ pm25_ugm3 \in {Some(v) : v \in Full25} /\ pm10_ugm3 = None
       \/ pm25_ugm3 = None /\ pm10_ugm3 \in {Some(v) : v \in Full10}
       \/ /\ pm25_ugm3 \in {None} \cup {Some(v) : v \in Grid25}
          /\ pm10_ugm3 \in {None} \cup {Some(v) : v \in Grid10}
    /\ aqi_locals = [pm25_aqi |-> None, pm10_aqi |-> None]
    /\ aqi_out = <<"pending">>

AqiInit == AqiInputs /\ ProbeIdle /\ ProgramIdle /\ StoreIdle /\ TimedIdle /\ TextIdle

\* one call calculate_aqi(pm25_ugm3, pm10_ugm3)
CalculateAqi ==
    /\ aqi_out = <<"pending">>
    /\ aqi_locals' = SubIndices(pm25_ugm3, pm10_ugm3)
    /\ aqi_out' = <<"returned", calculate_aqi(pm25_ugm3, pm10_ugm3)>>
    /\ UNCHANGED <<pm25_ugm3, pm10_ugm3, probeVars, progVars, metrics, storeVars, timedVars, textVars>>

AqiNext == CalculateAqi

SpecAqi == AqiInit /\ [][AqiNext]_vars

AqiReturned == aqi_out[1] = "returned"

AqiResult == aqi_out[2]

--------------------------------------------------------------------------
(* One ApolloClient call against one device *)

\* the reading a device reports for a channel: 1.00 for the first
\* catalog entry, 2.00 for the second, ...; 99.00 for uptime
ReadingOf(sensor_id) ==
    IF sensor_id \in KnownIds
    THEN 100 * (CHOOSE i \in 1..Len(KNOWN_SENSORS) : KNOWN_SENSORS[i][1] = sensor_id)
    ELSE 9900

\* a device that serves the channels of `served` and fails the others
\* in the way `failure`
DeviceServing(served, failure) ==
    [id \in SensorIds |->
        IF id \in served THEN [kind |-> "ok", value |-> ReadingOf(id)]
        ELSE [kind |-> failure]]

ProbeInputs ==
    /\ probe_dev \in {DeviceServing(served, failure) :
                         served \in SUBSET SensorIds, failure \in FailureKinds}
    /\ probe_out = <<"pending">>

ProbeInit == ProbeInputs /\ AqiIdle /\ ProgramIdle /\ StoreIdle /\ TimedIdle /\ TextIdle

\* client.get_status("air1")
GetStatus ==
    /\ probe_out = <<"pending">>
    /\ probe_out' = <<"get_status", get_status(probe_dev, "air1")>>
    /\ UNCHANGED <<probe_dev, aqiVars, progVars, metrics, storeVars, timedVars, textVars>>

\* client.test_connection()
TestConnection ==
    /\ probe_out = <<"pending">>
    /\ probe_out' = <<"test_connection", test_connection(probe_dev)>>
    /\ UNCHANGED <<probe_dev, aqiVars, progVars, metrics, storeVars, timedVars, textVars>>

ProbeNext == GetStatus \/ TestConnection

SpecProbe == ProbeInit /\ [][ProbeNext]_vars

\* the catalog channels the device serves
ServedKnown == {id \in KnownIds : probe_dev[id].kind = "ok"}

--------------------------------------------------------------------------
(* The exporter process: main.rs *)

\* config.get_device_names(): <<host, name>> in configuration order
ConfiguredDevices ==
    << <<"http://air1-a", "kitchen">>, <<"http://air1-b", "office">> >>

Hosts == {ConfiguredDevices[i][1] : i \in 1..Len(ConfiguredDevices)}

\* the poll loop is followed for this many ticks
MaxTicks == 2

\* a device serving exactly these readings (hundredths); any other
\* channel answers 404
Reporting(readings) ==
    [id \in SensorIds |->
        IF id \in DOMAIN readings THEN [kind |-> "ok", value |-> readings[id]]
        ELSE [kind |-> "http_status"]]

Unreachable == [id \in SensorIds |-> [kind |-> "send_error"]]

\* PM2.5 5.0: AQI 28, Good, PM2.5
AirGood ==
    Reporting("co2" :> 45000
              @@ "pm__2_5_m_weight_concentration" :> 500
              @@ "rssi" :> -6250)

\* PM2.5 20.0 and PM10 30.0: AQI 71, Moderate, PM2.5
AirModerate ==
    Reporting("co2" :> 52000
              @@ "pm__2_5_m_weight_concentration" :> 2000
              @@ "pm__10_m_weight_concentration" :> 3000)

\* PM2.5 5.0 and PM10 100.7: AQI 73, Moderate, PM10
AirCoarseDust ==
    Reporting("esp_temperature" :> 4150
              @@ "pm__2_5_m_weight_concentration" :> 500
              @@ "pm__10_m_weight_concentration" :> 10070)

\* PM2.5 0.0: sub-index 0
AirClean ==
    Reporting("co2" :> 45000 @@ "pm__2_5_m_weight_concentration" :> 0)

\* no catalog channel, only uptime
OnlyUptime == Reporting("uptime" :> 9900)

\* one catalog channel that the connection test does not try
OnlyTemperature == Reporting("sen55_temperature" :> 2250)

\* what each device may answer; a device may change at any moment
DeviceStates ==
    "http://air1-a" :> {Unreachable, AirGood, AirModerate, AirCoarseDust,
                        AirClean, OnlyUptime, OnlyTemperature}
    @@ "http://air1-b" :> {Unreachable, AirGood, AirModerate}

NameOf(host) ==
    ConfiguredDevices[CHOOSE i \in 1..Len(ConfiguredDevices) : ConfiguredDevices[i][1] = host][2]

ProgramStart ==
    /\ devices \in [Hosts -> UNION {DeviceStates[h] : h \in Hosts}]
    /\ \A h \in Hosts : devices[h] \in DeviceStates[h]
    /\ setup_i = 1
    /\ device_clients = EmptyMap
    /\ poll_pc = "not_spawned"
    /\ todo = {}
    /\ metrics = NewMetrics
    /\ metrics_text = {}
    /\ shared_metrics = {}
    /\ ticks = 0
    /\ tick_log = [h \in Hosts |-> "none"]
    /\ last_aqi = [h \in Hosts |-> None]

Init == ProgramStart /\ AqiIdle /\ ProbeIdle /\ StoreIdle /\ TimedIdle /\ TextIdle

\* the environment: a device starts answering differently
DeviceChanges(h) ==
    /\ \E d \in DeviceStates[h] :
           /\ d # devices[h]
           /\ devices' = [devices EXCEPT ![h] = d]
    /\ UNCHANGED <<setup_i, device_clients, poll_pc, todo, metrics, metrics_text,
                   shared_metrics, ticks, tick_log, last_aqi>>
    /\ UNCHANGED <<aqiVars, probeVars, storeVars, timedVars, textVars>>

\* a plausible slip: the client is registered whatever the connection
\* test returned
SetupDeviceUntested ==
    /\ setup_i <= Len(ConfiguredDevices)
    /\ device_clients' = MapPut(device_clients, ConfiguredDevices[setup_i][1],
                                ConfiguredDevices[setup_i][2])
    /\ setup_i' = setup_i + 1
    /\ UNCHANGED <<devices, poll_pc, todo, metrics, metrics_text, shared_metrics,
                   ticks, tick_log, last_aqi>>
    /\ UNCHANGED <<aqiVars, probeVars, storeVars, timedVars, textVars>>

\* main, lines 49-66: one iteration of the setup loop
SetupDevice ==
    /\ setup_i <= Len(ConfiguredDevices)
    /\ LET host == ConfiguredDevices[setup_i][1]
           name == ConfiguredDevices[setup_i][2]
       IN  device_clients' =
               IF test_connection(devices[host]).result = <<"Ok", TRUE>>
               THEN MapPut(device_clients, host, name)
               ELSE device_clients
    /\ setup_i' = setup_i + 1
    /\ UNCHANGED <<devices, poll_pc, todo, metrics, metrics_text, shared_metrics,
                   ticks, tick_log, last_aqi>>
    /\ UNCHANGED <<aqiVars, probeVars, storeVars, timedVars, textVars>>

\* a plausible slip: the polling task is spawned before the setup loop
\* has ended
SpawnPollingEarly ==
    /\ poll_pc = "not_spawned"
    /\ poll_pc' = "first_tick"
    /\ UNCHANGED <<devices, setup_i, device_clients, todo, metrics, metrics_text,
                   shared_metrics, ticks, tick_log, last_aqi>>
    /\ UNCHANGED <<aqiVars, probeVars, storeVars, timedVars, textVars>>

\* main, line 74: tokio::spawn of the polling task, after the setup loop
SpawnPolling ==
    /\ setup_i > Len(ConfiguredDevices)
    /\ poll_pc = "not_spawned"
    /\ poll_pc' = "first_tick"
    /\ UNCHANGED <<devices, setup_i, device_clients, todo, metrics, metrics_text,
                   shared_metrics, ticks, tick_log, last_aqi>>
    /\ UNCHANGED <<aqiVars, probeVars, storeVars, timedVars, textVars>>

\* lines 75-76: the first interval.tick() completes immediately
FirstTick ==
    /\ poll_pc = "first_tick"
    /\ poll_pc' = "sleeping"
    /\ UNCHANGED <<devices, setup_i, device_clients, todo, metrics, metrics_text,
                   shared_metrics, ticks, tick_log, last_aqi>>
    /\ UNCHANGED <<aqiVars, probeVars, storeVars, timedVars, textVars>>

\* lines 79-81: the period has elapsed, the registry lock is taken
Tick ==
    /\ poll_pc = "sleeping"
    /\ ticks < MaxTicks
    /\ poll_pc' = "collecting"
    /\ todo' = DOMAIN device_clients
    /\ ticks' = ticks + 1
    /\ tick_log' = [h \in Hosts |-> "none"]
    /\ UNCHANGED <<devices, setup_i, device_clients, metrics, metrics_text,
                   shared_metrics, last_aqi>>
    /\ UNCHANGED <<aqiVars, probeVars, storeVars, timedVars, textVars>>

\* lines 82-94: one iteration of the loop over the registry (a HashMap:
\* any order), get_status succeeded and the status is folded
ProbeOk(host) ==
    /\ poll_pc = "collecting"
    /\ host \in todo
    /\ LET call == get_status(devices[host], device_clients[host])
       IN  /\ call.result[1] = "Ok"
           /\ metrics' = update_device(metrics, host, call.result[2])
           /\ last_aqi' = IF UdAqiResult(call.result[2]) # None
                          THEN [last_aqi EXCEPT ![host] = UdAqiResult(call.result[2])]
                          ELSE last_aqi
    /\ todo' = todo \ {host}
    /\ tick_log' = [tick_log EXCEPT ![host] = "ok"]
    /\ UNCHANGED <<devices, setup_i, device_clients, poll_pc, metrics_text,
                   shared_metrics, ticks>>
    /\ UNCHANGED <<aqiVars, probeVars, storeVars, timedVars, textVars>>

\* a plausible slip: a failed probe ends the tick's loop over the registry
ProbeErrEndsTick(host) ==
    /\ poll_pc = "collecting"
    /\ host \in todo
    /\ get_status(devices[host], device_clients[host]).result[1] = "Err"
    /\ metrics' = mark_device_down(metrics, device_clients[host], host)
    /\ todo' = {}
    /\ tick_log' = [tick_log EXCEPT ![host] = "down"]
    /\ UNCHANGED <<devices, setup_i, device_clients, poll_pc, metrics_text,
                   shared_metrics, ticks, last_aqi>>
    /\ UNCHANGED <<aqiVars, probeVars, storeVars, timedVars, textVars>>

\* lines 82-83, 95-101: get_status failed
ProbeErr(host) ==
    /\ poll_pc = "collecting"
    /\ host \in todo
    /\ get_status(devices[host], device_clients[host]).result[1] = "Err"
    /\ metrics' = mark_device_down(metrics, device_clients[host], host)
    /\ todo' = todo \ {host}
    /\ tick_log' = [tick_log EXCEPT ![host] = "down"]
    /\ UNCHANGED <<devices, setup_i, device_clients, poll_pc, metrics_text,
                   shared_metrics, ticks, last_aqi>>
    /\ UNCHANGED <<aqiVars, probeVars, storeVars, timedVars, textVars>>

\* lines 105-109: the loop is over, the lock dropped, gather() returned Ok
GatherOk ==
    /\ poll_pc = "collecting"
    /\ todo = {}
    /\ metrics_text' = gather(metrics)
    /\ poll_pc' = "publishing"
    /\ UNCHANGED <<devices, setup_i, device_clients, todo, metrics, shared_metrics,
                   ticks, tick_log, last_aqi>>
    /\ UNCHANGED <<aqiVars, probeVars, storeVars, timedVars, textVars>>

\* a plausible slip: a failed render ends the polling task and clears
\* the snapshot
GatherErrStops ==
    /\ poll_pc = "collecting"
    /\ todo = {}
    /\ poll_pc' = "stopped"
    /\ shared_metrics' = {}
    /\ UNCHANGED <<devices, setup_i, device_clients, todo, metrics, metrics_text,
                   ticks, tick_log, last_aqi>>
    /\ UNCHANGED <<aqiVars, probeVars, storeVars, timedVars, textVars>>

\* lines 105-108, 113-115: gather() returned Err, which is only logged
GatherErr ==
    /\ poll_pc = "collecting"
    /\ todo = {}
    /\ poll_pc' = "sleeping"
    /\ UNCHANGED <<devices, setup_i, device_clients, todo, metrics, metrics_text,
                   shared_metrics, ticks, tick_log, last_aqi>>
    /\ UNCHANGED <<aqiVars, probeVars, storeVars, timedVars, textVars>>

\* lines 110-111: the snapshot is replaced under the write lock
Publish ==
    /\ poll_pc = "publishing"
    /\ shared_metrics' = metrics_text
    /\ poll_pc' = "sleeping"
    /\ UNCHANGED <<devices, setup_i, device_clients, todo, metrics, metrics_text,
                   ticks, tick_log, last_aqi>>
    /\ UNCHANGED <<aqiVars, probeVars, storeVars, timedVars, textVars>>

Next ==
    \/ \E h \in Hosts : DeviceChanges(h)
    \/ SetupDevice
    \/ SpawnPolling
    \/ FirstTick
    \/ Tick
    \/ \E h \in Hosts : ProbeOk(h)
    \/ \E h \in Hosts : ProbeErr(h)
    \/ GatherOk
    \/ GatherErr
    \/ Publish

Spec == Init /\ [][Next]_vars

--------------------------------------------------------------------------
(* The Metrics store called from two threads: Metrics is shared through *)
(* an Arc and every method takes &self.  One thread calls update_device *)
(* and mark_device_down, as the polling task does; another calls        *)
(* gather() at any moment.  update_aqi is followed statement by         *)
(* statement: each with_label_values(..).set(..), each                  *)
(* remove_label_values and each lock scope is one step.                 *)

\* the updater makes this many calls
MaxCalls == 3

\* the statuses get_status can return for a host, and one that carries a
\* channel id outside the match of update_device
StatusesOf(host) ==
    {get_status(d, NameOf(host)).result[2] :
        d \in {x \in DeviceStates[host] : get_status(x, NameOf(host)).result[1] = "Ok"}}
    \cup {[sensors     |-> ("uptime" :> [value |-> 9900, name |-> "Uptime"]
                            @@ "co2" :> [value |-> 61000, name |-> "CO2"]),
           device_name |-> NameOf(host)]}

StoreStart ==
    /\ metrics = NewMetrics
    /\ upd = [pc |-> "idle", calls |-> 0]
    /\ gathered = [text |-> {}, tracked |-> {}]

StoreInit ==
    /\ StoreStart
    /\ TimedIdle
    /\ TextIdle
    /\ AqiIdle
    /\ ProbeIdle
    /\ devices = EmptyMap
    /\ setup_i = 0
    /\ device_clients = EmptyMap
    /\ poll_pc = "not_spawned"
    /\ todo = {}
    /\ metrics_text = {}
    /\ shared_metrics = {}
    /\ ticks = 0
    /\ tick_log = EmptyMap
    /\ last_aqi = EmptyMap

\* update_device(host, status) up to the call of update_aqi (lines 207-295)
CallUpdateDevice(host, status) ==
    /\ upd.pc = "idle"
    /\ upd.calls < MaxCalls
    /\ metrics' = UdFoldReadings(metrics, host, status)
    /\ upd' = IF UdAqiResult(status) # None
              THEN [pc     |-> "remove_stale",
                    calls  |-> upd.calls + 1,
                    device |-> status.device_name,
                    host   |-> host,
                    result |-> Unwrap(UdAqiResult(status))]
              ELSE [pc |-> "idle", calls |-> upd.calls + 1]
    /\ UNCHANGED <<gathered, aqiVars, probeVars, progVars, timedVars, textVars>>

\* one statement of update_aqi
UpdateAqiStep(pc, next_pc, stored) ==
    /\ upd.pc = pc
    /\ metrics' = stored
    /\ upd' = IF next_pc = "idle" THEN [pc |-> "idle", calls |-> upd.calls]
              ELSE [upd EXCEPT !.pc = next_pc]
    /\ UNCHANGED <<gathered, aqiVars, probeVars, progVars, timedVars, textVars>>

RemoveStaleInfo == UpdateAqiStep("remove_stale", "set_aqi",
        UaRemoveStale(metrics, upd.device, upd.host, upd.result))

SetAqi == UpdateAqiStep("set_aqi", "set_pm25",
        UaSetAqi(metrics, upd.device, upd.host, upd.result))

SetPm25 == UpdateAqiStep("set_pm25", "set_pm10",
        UaSetPm25(metrics, upd.device, upd.host, upd.result))

SetPm10 == UpdateAqiStep("set_pm10", "set_info",
        UaSetPm10(metrics, upd.device, upd.host, upd.result))

SetInfo == UpdateAqiStep("set_info", "store_state",
        UaSetInfo(metrics, upd.device, upd.host, upd.result))

StoreState == UpdateAqiStep("store_state", "idle",
        UaStoreState(metrics, upd.device, upd.host, upd.result))

\* mark_device_down(device_name, host)
CallMarkDeviceDown(host) ==
    /\ upd.pc = "idle"
    /\ upd.calls < MaxCalls
    /\ metrics' = mark_device_down(metrics, NameOf(host), host)
    /\ upd' = [upd EXCEPT !.calls = upd.calls + 1]
    /\ UNCHANGED <<gathered, aqiVars, probeVars, progVars, timedVars, textVars>>

\* gather() on the other thread: it takes no lock of the store
ConcurrentGather ==
    /\ gathered' = [text    |-> gather(metrics),
                    tracked |-> DOMAIN metrics.previous_aqi_state]
    /\ UNCHANGED <<metrics, upd, aqiVars, probeVars, progVars, timedVars, textVars>>

StoreNext ==
    \/ \E host \in Hosts : \E status \in StatusesOf(host) : CallUpdateDevice(host, status)
    \/ RemoveStaleInfo
    \/ SetAqi
    \/ SetPm25
    \/ SetPm10
    \/ SetInfo
    \/ StoreState
    \/ \E host \in Hosts : CallMarkDeviceDown(host)
    \/ ConcurrentGather

SpecStore == StoreInit /\ [][StoreNext]_vars

--------------------------------------------------------------------------
(* The polling task on the clock.  The same loop as above, from the     *)
(* instant the task is spawned, with what the first view leaves out: the *)
(* time a probe takes, the tokio Interval that paces the loop, the       *)
(* Mutex of the registry, and a reader of the snapshot (metrics_handler) *)
(* running at any moment.                                                *)
(*                                                                       *)
(* tokio::time::interval(period): the first tick() completes at once;    *)
(* every tick() completes when the Interval's deadline is reached, or at *)
(* once if it has passed, and moves the deadline one period on (the      *)
(* default MissedTickBehavior::Burst).                                   *)
(*                                                                       *)
(* A request that is answered or refused takes no time on this clock; a  *)
(* request to a device that does not answer ends with a send error when  *)
(* the client's timeout (ApolloClient::new) expires.                     *)

\* --poll-interval, default
poll_interval == 30

\* --http-timeout, default
http_timeout == 10

\* a device that accepts no request: each one runs until the timeout
Hung == [id \in SensorIds |-> [kind |-> "timeout"]]

TimedDeviceStates ==
    "http://air1-a" :> {AirGood, AirModerate, Hung}
    @@ "http://air1-b" :> {AirGood, Unreachable, Hung}

\* the seconds one GET /sensor/{id} takes
RequestSeconds(answer) ==
    IF answer.kind = "timeout" THEN http_timeout ELSE 0

\* the seconds a call takes that sends these requests one after the other
RECURSIVE SecondsOf(_, _)
SecondsOf(dev, requests) ==
    IF requests = <<>> THEN 0
    ELSE RequestSeconds(dev[Head(requests)]) + SecondsOf(dev, Tail(requests))

\* interval.tick().await: the instant it completes
TickCompletesAt == IF now >= deadline THEN now ELSE deadline

\* the task has just been spawned: both configured devices answered the
\* connection test and are registered, the snapshot is the empty String,
\* the Interval is created (line 75) with its first deadline now
TimedStart ==
    /\ devices \in [Hosts -> UNION {TimedDeviceStates[h] : h \in Hosts}]
    /\ \A h \in Hosts : devices[h] \in TimedDeviceStates[h]
    /\ setup_i = Len(ConfiguredDevices) + 1
    /\ device_clients = [h \in Hosts |-> NameOf(h)]
    /\ poll_pc = "first_tick"
    /\ todo = {}
    /\ metrics = NewMetrics
    /\ metrics_text = {}
    /\ shared_metrics = {}
    /\ ticks = 0
    /\ tick_log = [h \in Hosts |-> "none"]
    /\ last_aqi = [h \in Hosts |-> None]
    /\ now = 0
    /\ deadline = 0
    /\ clients_lock = "free"
    /\ fetching = None
    /\ tick_times = <<>>
    /\ snapshots = << {} >>
    /\ scraped = None

TimedInit == TimedStart /\ AqiIdle /\ ProbeIdle /\ StoreIdle /\ TextIdle

\* the environment: a device starts answering differently
TimedDeviceChanges(h) ==
    /\ \E d \in TimedDeviceStates[h] :
           /\ d # devices[h]
           /\ devices' = [devices EXCEPT ![h] = d]
    /\ UNCHANGED <<setup_i, device_clients, poll_pc, todo, metrics, metrics_text,
                   shared_metrics, ticks, tick_log, last_aqi>>
    /\ UNCHANGED <<aqiVars, probeVars, storeVars, timedVars, textVars>>

\* a plausible slip: line 76 is missing, the first tick of the loop is
\* the one that completes at once
TimedFirstTickOmitted ==
    /\ poll_pc = "first_tick"
    /\ poll_pc' = "sleeping"
    /\ UNCHANGED <<now, deadline>>
    /\ UNCHANGED <<devices, setup_i, device_clients, todo, metrics, metrics_text,
                   shared_metrics, ticks, tick_log, last_aqi>>
    /\ UNCHANGED <<clients_lock, fetching, tick_times, snapshots, scraped>>
    /\ UNCHANGED <<aqiVars, probeVars, storeVars, textVars>>

\* line 76: the first interval.tick() completes at once
TimedFirstTick ==
    /\ poll_pc = "first_tick"
    /\ poll_pc' = "sleeping"
    /\ now' = TickCompletesAt
    /\ deadline' = deadline + poll_interval
    /\ UNCHANGED <<devices, setup_i, device_clients, todo, metrics, metrics_text,
                   shared_metrics, ticks, tick_log, last_aqi>>
    /\ UNCHANGED <<clients_lock, fetching, tick_times, snapshots, scraped>>
    /\ UNCHANGED <<aqiVars, probeVars, storeVars, textVars>>

\* a plausible slip: the timer starts a collection whenever its deadline
\* has passed, whether or not the previous one is over
TimedTickOverlapping ==
    /\ poll_pc \in {"sleeping", "collecting", "publishing"}
    /\ poll_pc = "sleeping" \/ now >= deadline
    /\ ticks < MaxTicks
    /\ now' = TickCompletesAt
    /\ deadline' = deadline + poll_interval
    /\ tick_times' = Append(tick_times, [due |-> deadline, at |-> TickCompletesAt])
    /\ clients_lock' = "poll"
    /\ poll_pc' = "collecting"
    /\ todo' = DOMAIN device_clients
    /\ ticks' = ticks + 1
    /\ tick_log' = [h \in Hosts |-> "none"]
    /\ UNCHANGED <<devices, setup_i, device_clients, metrics, metrics_text,
                   shared_metrics, last_aqi>>
    /\ UNCHANGED <<fetching, snapshots, scraped>>
    /\ UNCHANGED <<aqiVars, probeVars, storeVars, textVars>>

\* lines 79-81: interval.tick() completes, the registry lock is taken
TimedTick ==
    /\ poll_pc = "sleeping"
    /\ ticks < MaxTicks
    /\ clients_lock = "free"
    /\ now' = TickCompletesAt
    /\ deadline' = deadline + poll_interval
    /\ tick_times' = Append(tick_times, [due |-> deadline, at |-> TickCompletesAt])
    /\ clients_lock' = "poll"
    /\ poll_pc' = "collecting"
    /\ todo' = DOMAIN device_clients
    /\ ticks' = ticks + 1
    /\ tick_log' = [h \in Hosts |-> "none"]
    /\ UNCHANGED <<devices, setup_i, device_clients, metrics, metrics_text,
                   shared_metrics, last_aqi>>
    /\ UNCHANGED <<fetching, snapshots, scraped>>
    /\ UNCHANGED <<aqiVars, probeVars, storeVars, textVars>>

\* lines 82-83: the loop reaches an entry and calls get_status
StartProbe(host) ==
    /\ poll_pc = "collecting"
    /\ fetching = None
    /\ host \in todo
    /\ fetching' = Some(host)
    /\ UNCHANGED <<devices, setup_i, device_clients, poll_pc, todo, metrics,
                   metrics_text, shared_metrics, ticks, tick_log, last_aqi>>
    /\ UNCHANGED <<now, deadline, clients_lock, tick_times, snapshots, scraped>>
    /\ UNCHANGED <<aqiVars, probeVars, storeVars, textVars>>

\* lines 83-94: get_status returns Ok after its twelve requests, the
\* status is folded
FinishProbeOk(host) ==
    /\ poll_pc = "collecting"
    /\ fetching = Some(host)
    /\ LET call == get_status(devices[host], device_clients[host])
       IN  /\ call.result[1] = "Ok"
           /\ now' = now + SecondsOf(devices[host], call.requests)
           /\ metrics' = update_device(metrics, host, call.result[2])
    /\ fetching' = None
    /\ todo' = todo \ {host}
    /\ tick_log' = [tick_log EXCEPT ![host] = "ok"]
    /\ UNCHANGED <<devices, setup_i, device_clients, poll_pc, metrics_text,
                   shared_metrics, ticks, last_aqi>>
    /\ UNCHANGED <<deadline, clients_lock, tick_times, snapshots, scraped>>
    /\ UNCHANGED <<aqiVars, probeVars, storeVars, textVars>>

\* a plausible slip: a device whose probe failed stays in the tick's work
\* list and is probed again
FinishProbeErrRetried(host) ==
    /\ poll_pc = "collecting"
    /\ fetching = Some(host)
    /\ LET call == get_status(devices[host], device_clients[host])
       IN  /\ call.result[1] = "Err"
           /\ now' = now + SecondsOf(devices[host], call.requests)
    /\ metrics' = mark_device_down(metrics, device_clients[host], host)
    /\ fetching' = None
    /\ tick_log' = [tick_log EXCEPT ![host] = "down"]
    /\ UNCHANGED <<devices, setup_i, device_clients, poll_pc, todo, metrics_text,
                   shared_metrics, ticks, last_aqi>>
    /\ UNCHANGED <<deadline, clients_lock, tick_times, snapshots, scraped>>
    /\ UNCHANGED <<aqiVars, probeVars, storeVars, textVars>>

\* lines 83, 95-101: get_status returns Err after its twelve requests
FinishProbeErr(host) ==
    /\ poll_pc = "collecting"
    /\ fetching = Some(host)
    /\ LET call == get_status(devices[host], device_clients[host])
       IN  /\ call.result[1] = "Err"
           /\ now' = now + SecondsOf(devices[host], call.requests)
    /\ metrics' = mark_device_down(metrics, device_clients[host], host)
    /\ fetching' = None
    /\ todo' = todo \ {host}
    /\ tick_log' = [tick_log EXCEPT ![host] = "down"]
    /\ UNCHANGED <<devices, setup_i, device_clients, poll_pc, metrics_text,
                   shared_metrics, ticks, last_aqi>>
    /\ UNCHANGED <<deadline, clients_lock, tick_times, snapshots, scraped>>
    /\ UNCHANGED <<aqiVars, probeVars, storeVars, textVars>>

\* a plausible slip: the store is rendered for publishing as soon as no
\* call is in flight, the loop over the registry finished or not
TimedGatherOkEarly ==
    /\ poll_pc = "collecting"
    /\ fetching = None
    /\ clients_lock' = "free"
    /\ metrics_text' = gather(metrics)
    /\ poll_pc' = "publishing"
    /\ todo' = {}
    /\ UNCHANGED <<devices, setup_i, device_clients, metrics, shared_metrics,
                   ticks, tick_log, last_aqi>>
    /\ UNCHANGED <<now, deadline, fetching, tick_times, snapshots, scraped>>
    /\ UNCHANGED <<aqiVars, probeVars, storeVars, textVars>>

\* lines 105-109: the loop is over, the guard is dropped, gather() is Ok
TimedGatherOk ==
    /\ poll_pc = "collecting"
    /\ fetching = None
    /\ todo = {}
    /\ clients_lock' = "free"
    /\ metrics_text' = gather(metrics)
    /\ poll_pc' = "publishing"
    /\ UNCHANGED <<devices, setup_i, device_clients, todo, metrics, shared_metrics,
                   ticks, tick_log, last_aqi>>
    /\ UNCHANGED <<now, deadline, fetching, tick_times, snapshots, scraped>>
    /\ UNCHANGED <<aqiVars, probeVars, storeVars, textVars>>

\* lines 105-108, 113-115: the guard is dropped, gather() is Err
TimedGatherErr ==
    /\ poll_pc = "collecting"
    /\ fetching = None
    /\ todo = {}
    /\ clients_lock' = "free"
    /\ poll_pc' = "sleeping"
    /\ UNCHANGED <<devices, setup_i, device_clients, todo, metrics, metrics_text,
                   shared_metrics, ticks, tick_log, last_aqi>>
    /\ UNCHANGED <<now, deadline, fetching, tick_times, snapshots, scraped>>
    /\ UNCHANGED <<aqiVars, probeVars, storeVars, textVars>>

\* lines 110-111: the String is replaced under the write lock
TimedPublish ==
    /\ poll_pc = "publishing"
    /\ shared_metrics' = metrics_text
    /\ snapshots' = Append(snapshots, metrics_text)
    /\ poll_pc' = "sleeping"
    /\ UNCHANGED <<devices, setup_i, device_clients, todo, metrics, metrics_text,
                   ticks, tick_log, last_aqi>>
    /\ UNCHANGED <<now, deadline, clients_lock, fetching, tick_times, scraped>>
    /\ UNCHANGED <<aqiVars, probeVars, storeVars, textVars>>

\* a plausible slip: the handler answers with an empty body when the
\* last collection reached no device
ScrapeEmptyInOutage ==
    /\ scraped' = IF \A h \in DOMAIN device_clients : tick_log[h] = "down"
                  THEN Some({})
                  ELSE Some(shared_metrics)
    /\ UNCHANGED <<devices, setup_i, device_clients, poll_pc, todo, metrics,
                   metrics_text, shared_metrics, ticks, tick_log, last_aqi>>
    /\ UNCHANGED <<now, deadline, clients_lock, fetching, tick_times, snapshots>>
    /\ UNCHANGED <<aqiVars, probeVars, storeVars, textVars>>

\* metrics_handler: the String is cloned under the read lock
Scrape ==
    /\ scraped' = Some(shared_metrics)
    /\ UNCHANGED <<devices, setup_i, device_clients, poll_pc, todo, metrics,
                   metrics_text, shared_metrics, ticks, tick_log, last_aqi>>
    /\ UNCHANGED <<now, deadline, clients_lock, fetching, tick_times, snapshots>>
    /\ UNCHANGED <<aqiVars, probeVars, storeVars, textVars>>

TimedNext ==
    \/ \E h \in Hosts : TimedDeviceChanges(h)
    \/ TimedFirstTick
    \/ TimedTick
    \/ \E h \in Hosts : StartProbe(h)
    \/ \E h \in Hosts : FinishProbeOk(h)
    \/ \E h \in Hosts : FinishProbeErr(h)
    \/ TimedGatherOk
    \/ TimedGatherErr
    \/ TimedPublish
    \/ Scrape

SpecTimed == TimedInit /\ [][TimedNext]_vars

--------------------------------------------------------------------------
(* Text functions: extract_unit (apollo.rs), get_device_names and        *)
(* extract_device_name (config.rs).  A String is the sequence of its     *)
(* characters; a position is 1-based where Rust's byte offset is         *)
(* 0-based.  An f64 is carried in hundredths, as everywhere.             *)

DigitChar(d) == <<"0", "1", "2", "3", "4", "5", "6", "7", "8", "9">>[d + 1]

\* the decimal digits of a natural number
RECURSIVE NatToString(_)
NatToString(n) ==
    IF n < 10 THEN <<DigitChar(n)>>
    ELSE NatToString(n \div 10) \o <<DigitChar(n % 10)>>

Magnitude(value) == IF value < 0 THEN 0 - value ELSE value

SignOf(value) == IF value < 0 THEN <<"-">> ELSE <<>>

\* format!("{value}"): the shortest decimal that reads back as the f64;
\* for a value in hundredths, the digits without trailing zeros
FormatDisplay(value) ==
    LET a     == Magnitude(value)
        cents == a % 100
    IN  SignOf(value) \o NatToString(a \div 100)
          \o (IF cents = 0 THEN <<>>
              ELSE IF cents % 10 = 0 THEN <<".", DigitChar(cents \div 10)>>
              ELSE <<".", DigitChar(cents \div 10), DigitChar(cents % 10)>>)

\* format!("{value:.1}"): one digit after the point, the exact value of
\* the f64 rounded to nearest, an exact tie to even.  A value whose
\* hundredths digit is 5 is an exact tie only if it ends in .25 or .75
\* (the others are not representable and fall to one side); the inputs
\* below keep to those
FormatOneDecimal(value) ==
    LET a      == Magnitude(value)
        q      == a \div 10
        r      == a % 10
        tenths == IF r > 5 \/ (r = 5 /\ q % 2 = 1) THEN q + 1 ELSE q
    IN  SignOf(value) \o NatToString(tenths \div 10) \o <<".", DigitChar(tenths % 10)>>

\* haystack.find(needle) from position p on: Some(position) or None
RECURSIVE FindFrom(_, _, _)
FindFrom(haystack, needle, p) ==
    IF p + Len(needle) - 1 > Len(haystack) THEN None
    ELSE IF SubSeq(haystack, p, p + Len(needle) - 1) = needle THEN Some(p)
    ELSE FindFrom(haystack, needle, p + 1)

find(haystack, needle) == FindFrom(haystack, needle, 1)

contains(haystack, needle) == find(haystack, needle) # None

WhiteSpace == {" ", "\t"}

RECURSIVE trim_start(_)
trim_start(s) ==
    IF s # <<>> /\ Head(s) \in WhiteSpace THEN trim_start(Tail(s)) ELSE s

RECURSIVE trim_end(_)
trim_end(s) ==
    IF s # <<>> /\ s[Len(s)] \in WhiteSpace THEN trim_end(SubSeq(s, 1, Len(s) - 1)) ELSE s

\* a plausible slip: the text after the number is returned as it is
trim_nothing(s) == s

\* str::trim
trim(s) == trim_end(trim_start(s))

\* state[pos + needle.len()..].trim()
TrimmedAfter(state, pos, needle) ==
    trim(SubSeq(state, pos + Len(needle), Len(state)))

\* the if / else-if chain of extract_unit: <<text looked for, unit returned>>
UnitChain ==
    << << <<"°", "C">>, <<"°", "C">> >>,
       << <<"°", "F">>, <<"°", "F">> >>,
       << <<"%">>, <<"%">> >>,
       << <<"p", "p", "m">>, <<"p", "p", "m">> >>,
       << <<"µ", "g", "/", "m", "³">>, <<"µ", "g", "/", "m", "³">> >>,
       << <<"h", "P", "a">>, <<"h", "P", "a">> >>,
       << <<"l", "x">>, <<"l", "x">> >>,
       << <<"d", "B", "m">>, <<"d", "B", "m">> >>,
       << <<" ", "s">>, <<"s">> >> >>

\* the chain from entry i on
RECURSIVE CommonUnitFrom(_, _)
CommonUnitFrom(state, i) ==
    IF i > Len(UnitChain) THEN <<>>
    ELSE IF contains(state, UnitChain[i][1]) THEN UnitChain[i][2]
    ELSE CommonUnitFrom(state, i + 1)

extract_unit(state, value) ==
    LET value_str           == FormatDisplay(value)
        value_str_formatted == FormatOneDecimal(value)
    IN  IF find(state, value_str) # None
        THEN TrimmedAfter(state, Unwrap(find(state, value_str)), value_str)
        ELSE IF find(state, value_str_formatted) # None
        THEN TrimmedAfter(state, Unwrap(find(state, value_str_formatted)),
                          value_str_formatted)
        ELSE CommonUnitFrom(state, 1)

\* s.starts_with(prefix)
starts_with(s, prefix) ==
    Len(s) >= Len(prefix) /\ SubSeq(s, 1, Len(prefix)) = prefix

\* str::trim_start_matches: the prefix is removed as often as it repeats
RECURSIVE trim_start_matches(_, _)
trim_start_matches(s, prefix) ==
    IF starts_with(s, prefix)
    THEN trim_start_matches(SubSeq(s, Len(prefix) + 1, Len(s)), prefix)
    ELSE s

\* s.split(':').next(): the text before the first ':' (all of s if none);
\* it is never None, so unwrap_or("unknown") never applies
FirstSplit(s) ==
    IF find(s, <<":">>) = None THEN s
    ELSE SubSeq(s, 1, Unwrap(find(s, <<":">>)) - 1)

HttpScheme == <<"h", "t", "t", "p", ":", "/", "/">>

HttpsScheme == <<"h", "t", "t", "p", "s", ":", "/", "/">>

extract_device_name(url) ==
    FirstSplit(trim_start_matches(trim_start_matches(url, HttpScheme), HttpsScheme))

\* a plausible slip: a configured name is never used
DeviceNameIgnoringNames(host, names, idx) == extract_device_name(host)

\* the name get_device_names pairs with hosts[idx]
DeviceNameAt(host, names, idx) ==
    IF names # None /\ idx <= Len(Unwrap(names))
    THEN Unwrap(names)[idx]
    ELSE extract_device_name(host)

get_device_names(hosts, names) ==
    [idx \in 1..Len(hosts) |-> <<hosts[idx], DeviceNameAt(hosts[idx], names, idx)>>]

\* --- inputs ---

\* the values passed to extract_unit (hundredths)
UnitValues == {45000, 2250, 6500, 101325, -6200, 250, 1234, 99, -4, 100000}

UnitSuffixes ==
    { <<>>,
      <<" ", "p", "p", "m">>,
      <<" ", "°", "C">>,
      <<"°", "F">>,
      <<" ", "%">>,
      <<" ", "µ", "g", "/", "m", "³">>,
      <<" ", "h", "P", "a">>,
      <<" ", " ", "l", "x", " ", "\t">>,
      <<" ", "d", "B", "m">>,
      <<" ", "s">>,
      <<" ", "r", "p", "m">>,
      <<" ", "s", " ", "(", "%", ")">> }

\* the number as the device may print it: either rendering of one of the
\* values, or no number
UnitNumbers ==
    {FormatDisplay(v) : v \in UnitValues} \cup {FormatOneDecimal(v) : v \in UnitValues}
        \cup { <<>>, <<"n", "/", "a">> }

UnitPrefixes == { <<>>, <<"~">> }

UnitStates == {p \o n \o u : p \in UnitPrefixes, n \in UnitNumbers, u \in UnitSuffixes}

\* host URLs as they may be configured
HostA == <<"a", ".", "l", "a", "n">>

HostIp == <<"1", "0", ".", "0", ".", "0", ".", "7">>

HostV6 == <<"[", ":", ":", "1", "]">>

Port == <<":", "8", "0">>

ConfigHosts ==
    { HostA, HostA \o Port,
      HttpScheme \o HostA, HttpScheme \o HostIp \o Port, HttpsScheme \o HostA,
      HttpScheme \o HostV6 \o Port }

ConfigNames == { <<"K">>, <<"B", "e", "d">> }

SeqsUpTo2(S) == { <<>> } \cup {<<x>> : x \in S} \cup {<<x, y>> : x \in S, y \in S}

TextInputs ==
    /\ \/ fn_in \in {[fn |-> "extract_unit", state |-> st, value |-> v] :
                        st \in UnitStates, v \in UnitValues}
       \/ fn_in \in {[fn |-> "get_device_names", hosts |-> hs, names |-> ns] :
                        hs \in SeqsUpTo2(ConfigHosts) \ { <<>> },
                        ns \in {None} \cup {Some(n) : n \in SeqsUpTo2(ConfigNames)}}
    /\ fn_out = <<"pending">>

TextInit == TextInputs /\ AqiIdle /\ ProbeIdle /\ ProgramIdle /\ StoreIdle /\ TimedIdle

\* one call extract_unit(&data.state, data.value)
ExtractUnit ==
    /\ fn_in.fn = "extract_unit"
    /\ fn_out = <<"pending">>
    /\ fn_out' = <<"returned", extract_unit(fn_in.state, fn_in.value)>>
    /\ UNCHANGED <<fn_in, aqiVars, probeVars, progVars, metrics, storeVars, timedVars>>

\* one call config.get_device_names()
GetDeviceNames ==
    /\ fn_in.fn = "get_device_names"
    /\ fn_out = <<"pending">>
    /\ fn_out' = <<"returned", get_device_names(fn_in.hosts, fn_in.names)>>
    /\ UNCHANGED <<fn_in, aqiVars, probeVars, progVars, metrics, storeVars, timedVars>>

TextNext == ExtractUnit \/ GetDeviceNames

SpecText == TextInit /\ [][TextNext]_vars

--------------------------------------------------------------------------
(* Claims about the AQI engine, checked under SpecAqi *)

\* floor to a multiple of `unit` hundredths, written with the remainder
FloorTo(v, unit) == v - (v % unit)

\* C3: calculate_aqi returns none if and only if neither pollutant
\* produced a sub-index; whenever at least one pollutant produces a
\* sub-index, a result is returned.
C3_NoneIffNoSubIndex ==
    AqiReturned =>
        ((AqiResult = None) <=>
            (aqi_locals.pm25_aqi = None /\ aqi_locals.pm10_aqi = None))

\* C4: a returned result has aqi = the maximum of the sub-indices that
\* were computed, primary_pollutant names a pollutant whose sub-index
\* is that maximum, and on equal sub-indices it is "PM2.5".
C4_MaxAndPrimary ==
    (AqiReturned /\ AqiResult # None) =>
        LET r    == Unwrap(AqiResult)
            subs == r.pm25_aqi \cup r.pm10_aqi
        IN  /\ r.pm25_aqi = aqi_locals.pm25_aqi
            /\ r.pm10_aqi = aqi_locals.pm10_aqi
            /\ r.aqi \in subs
            /\ \A s \in subs : s <= r.aqi
            /\ r.primary_pollutant \in {"PM2.5", "PM10"}
            /\ r.primary_pollutant = "PM2.5" => r.pm25_aqi = Some(r.aqi)
            /\ r.primary_pollutant = "PM10" => r.pm10_aqi = Some(r.aqi)
            /\ (r.pm25_aqi # None /\ r.pm25_aqi = r.pm10_aqi)
                   => r.primary_pollutant = "PM2.5"

\* a tie: both sub-indices are 50 and PM2.5 is kept as primary
C4_Witness ==
    /\ AqiReturned
    /\ AqiResult # None
    /\ pm25_ugm3 = Some(900)
    /\ pm10_ugm3 = Some(5400)
    /\ Unwrap(AqiResult).pm25_aqi = Some(50)
    /\ Unwrap(AqiResult).pm10_aqi = Some(50)
    /\ Unwrap(AqiResult).primary_pollutant = "PM2.5"

\* the sub-index `sub` computed for concentration c obeys the boundary
\* law of the table: the index endpoints at the bounds of a row, and
\* within half a unit of the linear interpolation inside a row
RowLaw(c, sub, breakpoints) ==
    \A i \in 1..Len(breakpoints) :
        LET bp_lo == breakpoints[i][1]
            bp_hi == breakpoints[i][2]
            i_lo  == breakpoints[i][3]
            i_hi  == breakpoints[i][4]
            den   == bp_hi - bp_lo
            exact == (i_hi - i_lo) * (c - bp_lo) + i_lo * den
        IN  /\ c = bp_lo => sub = Some(i_lo)
            /\ c = bp_hi => sub = Some(i_hi)
            /\ (bp_lo < c /\ c < bp_hi) =>
                   /\ sub # None
                   /\ 2 * (Unwrap(sub) * den - exact) <= den
                   /\ 2 * (exact - Unwrap(sub) * den) <= den
                   \* a tie is rounded away from zero
                   /\ 2 * (exact - Unwrap(sub) * den) # den

\* C5: for every row of both tables the lower bound gives exactly
\* indexLo, the upper bound exactly indexHi, and a value strictly inside
\* the row the nearest integer to the linear interpolation.
C5_BoundaryLaw ==
    AqiReturned =>
        /\ \A c \in pm25_ugm3 :
               c % 10 = 0 => RowLaw(c, aqi_locals.pm25_aqi, PM25_BREAKPOINTS)
        /\ \A c \in pm10_ugm3 :
               c % 100 = 0 => RowLaw(c, aqi_locals.pm10_aqi, PM10_BREAKPOINTS)

\* the upper bound 154.0 of the second PM10 row gives exactly 100
C5_Witness ==
    /\ AqiReturned
    /\ pm10_ugm3 = Some(15400)
    /\ aqi_locals.pm10_aqi = Some(100)

\* C6: a concentration above the upper bound of the last row gives the
\* sub-index 500, and alone it gives aqi = 500, category Hazardous.
C6_Saturation ==
    AqiReturned =>
        /\ \A c \in pm25_ugm3 : c >= 100000 => aqi_locals.pm25_aqi = Some(500)
        /\ \A c \in pm10_ugm3 : c >= 100000 => aqi_locals.pm10_aqi = Some(500)
        /\ \A c \in pm25_ugm3 \cup pm10_ugm3 :
               (c >= 100000 /\ (pm25_ugm3 = None \/ pm10_ugm3 = None)) =>
                   /\ AqiResult # None
                   /\ Unwrap(AqiResult).aqi = 500
                   /\ Unwrap(AqiResult).category = "Hazardous"

\* PM10 = 1003 alone: saturated
C6_Witness ==
    /\ AqiReturned
    /\ pm25_ugm3 = None
    /\ pm10_ugm3 = Some(100300)
    /\ AqiResult # None
    /\ Unwrap(AqiResult).aqi = 500
    /\ Unwrap(AqiResult).category = "Hazardous"

\* C7: the category of a result is the one the fixed integer ranges
\* give for its aqi.
C7_Category ==
    (AqiReturned /\ AqiResult # None) =>
        LET r == Unwrap(AqiResult)
        IN  \/ r.aqi \in 0..50 /\ r.category = "Good"
            \/ r.aqi \in 51..100 /\ r.category = "Moderate"
            \/ r.aqi \in 101..150 /\ r.category = "UnhealthyForSensitiveGroups"
            \/ r.aqi \in 151..200 /\ r.category = "Unhealthy"
            \/ r.aqi \in 201..300 /\ r.category = "VeryUnhealthy"
            \/ r.aqi > 300 /\ r.category = "Hazardous"

\* the upper end 150 of a range
C7_Witness ==
    /\ AqiReturned
    /\ AqiResult # None
    /\ Unwrap(AqiResult).aqi = 150
    /\ Unwrap(AqiResult).category = "UnhealthyForSensitiveGroups"

\* C8: the sub-indices are those of the floored concentrations (PM2.5 to
\* one decimal, PM10 to an integer), so inputs with the same floor have
\* the same sub-index: 12.34 and 12.39 both give 57, 54.0 and 54.9 both
\* give 50.
C8_TruncatedBeforeLookup ==
    AqiReturned =>
        /\ aqi_locals.pm25_aqi =
               UNION {calculate_pollutant_aqi(FloorTo(c, 10), PM25_BREAKPOINTS) : c \in pm25_ugm3}
        /\ aqi_locals.pm10_aqi =
               UNION {calculate_pollutant_aqi(FloorTo(c, 100), PM10_BREAKPOINTS) : c \in pm10_ugm3}
        /\ pm25_ugm3 \in {Some(1234), Some(1239)} => aqi_locals.pm25_aqi = Some(57)
        /\ pm10_ugm3 \in {Some(5400), Some(5490)} => aqi_locals.pm10_aqi = Some(50)

\* 12.39 and 54.9 looked up as 12.3 and 54
C8_Witness ==
    /\ AqiReturned
    /\ pm25_ugm3 = Some(1239)
    /\ pm10_ugm3 = Some(5490)
    /\ aqi_locals.pm25_aqi = Some(57)
    /\ aqi_locals.pm10_aqi = Some(50)

\* C26: a concentration that is negative after truncation gives that
\* pollutant no sub-index, and when the other pollutant has a sub-index
\* calculate_aqi returns a result made of the other pollutant alone: its
\* aqi is the other sub-index, it names the other pollutant, and the
\* sub-index of the negative pollutant is absent.
C26_NegativePollutantLeftOut ==
    AqiReturned =>
        /\ \A v \in pm25_ugm3 : truncate_pm25(v) < 0 =>
               /\ aqi_locals.pm25_aqi = None
               /\ aqi_locals.pm10_aqi # None =>
                      /\ AqiResult # None
                      /\ \A r \in AqiResult :
                             /\ r.pm25_aqi = None
                             /\ r.pm10_aqi = aqi_locals.pm10_aqi
                             /\ r.aqi = Unwrap(aqi_locals.pm10_aqi)
                             /\ r.primary_pollutant = "PM10"
        /\ \A v \in pm10_ugm3 : truncate_pm10(v) < 0 =>
               /\ aqi_locals.pm10_aqi = None
               /\ aqi_locals.pm25_aqi # None =>
                      /\ AqiResult # None
                      /\ \A r \in AqiResult :
                             /\ r.pm10_aqi = None
                             /\ r.pm25_aqi = aqi_locals.pm25_aqi
                             /\ r.aqi = Unwrap(aqi_locals.pm25_aqi)
                             /\ r.primary_pollutant = "PM2.5"

\* sub-index s1 of the lower concentration, s2 of the higher one
NotAbove(s1, s2) == \A x \in s1 : \A y \in s2 : x <= y

\* the sub-index `sub` of the truncated concentration c is not below
\* that of the next lower truncated concentration (one `step` less) nor
\* of any table bound up to c, and not above that of any bound from c on
MonotoneAt(c, sub, breakpoints, step) ==
    c >= 0 =>
        /\ c >= step => NotAbove(calculate_pollutant_aqi(c - step, breakpoints), sub)
        /\ \A b \in Bounds(breakpoints) :
               /\ b <= c => NotAbove(calculate_pollutant_aqi(b, breakpoints), sub)
               /\ c <= b => NotAbove(sub, calculate_pollutant_aqi(b, breakpoints))

\* C29: for each pollutant the sub-index does not decrease when the
\* truncated concentration grows, over the whole non-negative range:
\* within a row, from one row to the next, and from the last row into
\* saturation.
C29_SubIndexMonotone ==
    AqiReturned =>
        /\ \A v \in pm25_ugm3 :
               MonotoneAt(truncate_pm25(v), aqi_locals.pm25_aqi, PM25_BREAKPOINTS, 10)
        /\ \A v \in pm10_ugm3 :
               MonotoneAt(truncate_pm10(v), aqi_locals.pm10_aqi, PM10_BREAKPOINTS, 100)

\* the rows of the table that the concentration c matches
RowsMatching(c, breakpoints) ==
    {i \in 1..Len(breakpoints) : c >= breakpoints[i][1] /\ c <= breakpoints[i][2]}

\* c matches exactly one row, or no row and lies above the last one
OneRowOrAbove(c, breakpoints) ==
    \/ Cardinality(RowsMatching(c, breakpoints)) = 1
    \/ /\ RowsMatching(c, breakpoints) = {}
       /\ c > breakpoints[Len(breakpoints)][2]

\* C30: every non-negative PM2.5 concentration floored to a tenth and
\* every non-negative PM10 concentration floored to an integer matches
\* exactly one row of its table or lies above the last row, and the
\* pollutant gets a sub-index.
C30_NoGapNoOverlap ==
    AqiReturned =>
        /\ \A v \in pm25_ugm3 : FloorTo(v, 10) >= 0 =>
               /\ OneRowOrAbove(FloorTo(v, 10), PM25_BREAKPOINTS)
               /\ aqi_locals.pm25_aqi # None
        /\ \A v \in pm10_ugm3 : FloorTo(v, 100) >= 0 =>
               /\ OneRowOrAbove(FloorTo(v, 100), PM10_BREAKPOINTS)
               /\ aqi_locals.pm10_aqi # None

\* 54.9 ug/m3 of PM10 is looked up as 54, the upper bound of the first
\* row, one below the lower bound 55 of the second
C30_Witness ==
    /\ AqiReturned
    /\ pm25_ugm3 = None
    /\ pm10_ugm3 = Some(5490)
    /\ RowsMatching(5400, PM10_BREAKPOINTS) = {1}
    /\ aqi_locals.pm10_aqi = Some(50)

--------------------------------------------------------------------------
(* Claims about the sensor probe, checked under SpecProbe *)

\* C9: get_status requests every one of the 12 catalog channels once; it
\* succeeds with exactly the channels whose fetch succeeded (a failed
\* channel is left out and does not end the fetches) and fails if and
\* only if no channel succeeded.
C9_PartialProbe ==
    probe_out[1] = "get_status" =>
        LET call == probe_out[2]
        IN  /\ Len(call.requests) = 12
            /\ \A i \in 1..Len(KNOWN_SENSORS) : call.requests[i] = KNOWN_SENSORS[i][1]
            /\ \A id \in KnownIds :
                   Cardinality({i \in 1..Len(call.requests) : call.requests[i] = id}) = 1
            /\ (call.result[1] = "Err") <=> (ServedKnown = {})
            /\ call.result[1] = "Ok" =>
                   /\ DOMAIN call.result[2].sensors = ServedKnown
                   /\ \A id \in ServedKnown :
                          call.result[2].sensors[id].value = probe_dev[id].value

\* a device serving 2 of the 12 channels: a snapshot of those 2
C9_Witness ==
    /\ probe_out[1] = "get_status"
    /\ ServedKnown = {"co2", "sen55_temperature"}
    /\ probe_out[2].result[1] = "Ok"
    /\ DOMAIN probe_out[2].result[2].sensors = {"co2", "sen55_temperature"}
    /\ Len(probe_out[2].requests) = 12

\* the fallback chain of test_connection
ConnectionChain == <<"co2", "esp_temperature", "uptime">>

\* the positions of the chain whose channel the device serves
ServedInChain == {i \in 1..Len(ConnectionChain) : probe_dev[ConnectionChain[i]].kind = "ok"}

\* C21: test_connection requests co2, esp_temperature, uptime in this
\* order up to and including the first channel that returns a reading;
\* it returns Ok(true) if one of the three does and Ok(false), never an
\* Err, if none does.
C21_ConnectionFallback ==
    probe_out[1] = "test_connection" =>
        LET call == probe_out[2]
            last == IF ServedInChain = {} THEN Len(ConnectionChain)
                    ELSE CHOOSE i \in ServedInChain : \A j \in ServedInChain : i <= j
        IN  /\ call.requests = SubSeq(ConnectionChain, 1, last)
            /\ call.result = <<"Ok", ServedInChain # {}>>

\* a device that serves uptime but neither co2 nor esp_temperature: all
\* three are tried and the test succeeds
C21_Witness ==
    /\ probe_out[1] = "test_connection"
    /\ ServedInChain = {3}
    /\ probe_out[2].requests = <<"co2", "esp_temperature", "uptime">>
    /\ probe_out[2].result = <<"Ok", TRUE>>

--------------------------------------------------------------------------
(* Claims about the store and the polling loop *)

KeyOf(host) == <<NameOf(host), host>>

\* the label tuples of the aqi_info series of a device key in a store
InfoLabels(m, key) ==
    {l \in DOMAIN m.gauges["aqi_info"] : <<l[1], l[2]>> = key}

\* the aqi_info lines of a device key in a rendered text
InfoLines(text, key) ==
    {line \in text : line[1] = "aqi_info" /\ <<line[2][1], line[2][2]>> = key}

\* C1 (under Spec): once an AQI result was computed for a device key, the
\* store holds exactly one aqi_info series for it, labelled with the
\* category and primary pollutant of the last result computed (none
\* before); the aqi_info series never outnumber the device keys.
C1_OneInfoSeriesPerDevice ==
    /\ \A h \in Hosts :
           /\ last_aqi[h] = None => InfoLabels(metrics, KeyOf(h)) = {}
           /\ last_aqi[h] # None =>
                  LET r == Unwrap(last_aqi[h])
                      l == <<NameOf(h), h, as_str(r.category), r.primary_pollutant>>
                  IN  /\ InfoLabels(metrics, KeyOf(h)) = {l}
                      /\ InfoLines(gather(metrics), KeyOf(h)) = {<<"aqi_info", l, 100>>}
    /\ Cardinality(DOMAIN metrics.gauges["aqi_info"]) <= Cardinality(DOMAIN device_clients)
    /\ Cardinality({line \in gather(metrics) : line[1] = "aqi_info"})
           <= Cardinality(DOMAIN device_clients)

\* the snapshot published after the first tick shows Good for the
\* kitchen device, the store now shows Moderate and no Good series
C1_Witness ==
    /\ <<"aqi_info", <<"kitchen", "http://air1-a", "Good", "PM2.5">>, 100>> \in shared_metrics
    /\ <<"aqi_info", <<"kitchen", "http://air1-a", "Moderate", "PM2.5">>, 100>> \in gather(metrics)
    /\ \A line \in InfoLines(gather(metrics), <<"kitchen", "http://air1-a">>) :
           line[2][3] # "Good"
    /\ last_aqi["http://air1-a"] # None

\* C2 (under SpecStore): a gather() that runs while update_aqi changes a
\* device's category or pollutant sees exactly one aqi_info series for
\* every device whose AQI state is tracked.
C2_GatherSeesOneInfo ==
    \A key \in gathered.tracked :
        Cardinality(InfoLines(gathered.text, key)) = 1

\* the probe of host h failed in this step
ProbeFailedStep(h) == tick_log[h] = "none" /\ tick_log'[h] = "down"

\* C10 (under Spec): a failed probe changes nothing in the store but the
\* device_up series of that device, which becomes 0.
C10_FailureKeepsSeries ==
    [][\A h \in Hosts :
          ProbeFailedStep(h) =>
              /\ \A f \in MetricFields \ {"device_up"} :
                     metrics'.gauges[f] = metrics.gauges[f]
              /\ metrics'.previous_aqi_state = metrics.previous_aqi_state
              /\ DOMAIN metrics'.gauges["device_up"] =
                     DOMAIN metrics.gauges["device_up"] \cup {KeyOf(h)}
              /\ metrics'.gauges["device_up"][KeyOf(h)] = 0
              /\ \A k \in DOMAIN metrics.gauges["device_up"] \ {KeyOf(h)} :
                     metrics'.gauges["device_up"][k] = metrics.gauges["device_up"][k]
      ]_vars

\* the kitchen device was folded in the first tick and failed its probe
\* in the second: device_up is 0, the other series are still there
C10_Witness ==
    /\ tick_log["http://air1-a"] = "down"
    /\ metrics.gauges["device_up"][<<"kitchen", "http://air1-a">>] = 0
    /\ <<"kitchen", "http://air1-a">> \in DOMAIN metrics.gauges["co2_ppm"]
    /\ <<"kitchen", "http://air1-a">> \in DOMAIN metrics.gauges["aqi"]
    /\ InfoLabels(metrics, <<"kitchen", "http://air1-a">>) # {}
    /\ <<"kitchen", "http://air1-a">> \in DOMAIN metrics.previous_aqi_state

\* the value the store holds for a channel reading: rssi is cut to an integer
StoredReading(sensor_id, value) ==
    IF sensor_id = "rssi" THEN AsI64(value) ELSE value

\* the probe of host h succeeded in this step
ProbeSucceededStep(h) == tick_log[h] = "none" /\ tick_log'[h] = "ok"

\* the registered devices the current tick has not probed yet
Unprobed == {h \in DOMAIN device_clients : tick_log[h] = "none"}

\* C11 (under Spec): within a tick the devices still to be probed are
\* exactly the registered devices not probed yet, whatever the outcome of
\* the others (each is probed once); the tick reaches its gather only when
\* every registered device was probed; and a successful probe stores
\* device_up = 1 and every reading the device serves at that moment.
C11_TickIsolation ==
    /\ [](poll_pc = "collecting" => todo = Unprobed)
    /\ []((poll_pc = "publishing" \/ (poll_pc = "sleeping" /\ ticks > 0))
             => Unprobed = {})
    /\ [][\A h \in Hosts :
             ProbeSucceededStep(h) =>
                 /\ metrics'.gauges["device_up"][KeyOf(h)] = 1
                 /\ \A id \in KnownIds :
                        devices[h][id].kind = "ok" =>
                            metrics'.gauges[SensorField(id)][KeyOf(h)]
                                = StoredReading(id, devices[h][id].value)
         ]_vars

\* second tick: the kitchen device has failed every probe so far (it has
\* no reading series), the office device was folded in both ticks: the
\* snapshot of the first tick shows its CO2 at 450, the store now 520
C11_Witness ==
    /\ ticks = 2
    /\ tick_log = ("http://air1-a" :> "down" @@ "http://air1-b" :> "ok")
    /\ metrics.gauges["device_up"][<<"kitchen", "http://air1-a">>] = 0
    /\ \A f \in MetricFields \ {"device_up"} :
           <<"kitchen", "http://air1-a">> \notin DOMAIN metrics.gauges[f]
    /\ <<"device_up", <<"kitchen", "http://air1-a">>, 0>> \in shared_metrics
    /\ <<"co2_ppm", <<"office", "http://air1-b">>, 45000>> \in shared_metrics
    /\ metrics.gauges["co2_ppm"][<<"office", "http://air1-b">>] = 52000
    /\ metrics.gauges["device_up"][<<"office", "http://air1-b">>] = 1

\* the loop over the registry is over and the polling task moves on
\* without a rendered text: gather() returned Err
RenderFailedStep ==
    /\ poll_pc = "collecting"
    /\ todo = {}
    /\ poll_pc' # "collecting"
    /\ poll_pc' # "publishing"

\* C14 (under Spec): when gather() fails, the published snapshot, the
\* store and the registry are left as they are and the polling task is
\* back at the point where it waits for the next tick.
C14_RenderFailureKeepsSnapshot ==
    [][RenderFailedStep =>
          /\ shared_metrics' = shared_metrics
          /\ metrics' = metrics
          /\ device_clients' = device_clients
          /\ poll_pc' = "sleeping"
      ]_vars

\* the first tick published, the render of the second tick failed: the
\* task is waiting again, the snapshot is still the one of the first tick
\* although the store has changed since
C14_Witness ==
    /\ ticks = 2
    /\ poll_pc = "sleeping"
    /\ metrics_text = shared_metrics
    /\ shared_metrics # {}
    /\ shared_metrics # gather(metrics)
    /\ Unprobed = {}

\* the polling task writes the snapshot in this step
PublishStep == poll_pc = "publishing" /\ poll_pc' # "publishing"

\* C18 (under Spec): the snapshot written at the end of a tick shows, for
\* every registered device, one device_up series: 1 if the probe of this
\* tick succeeded, 0 if it failed, whatever the previous ticks did; and a
\* device folded in this tick shows the readings it served.
C18_DeviceUpFollowsTick ==
    /\ [][PublishStep =>
             \A h \in DOMAIN device_clients :
                 {line \in shared_metrics' :
                     line[1] = "device_up" /\ line[2] = KeyOf(h)}
                   = {<<"device_up", KeyOf(h), IF tick_log[h] = "ok" THEN 1 ELSE 0>>}
         ]_vars
    /\ [](\A h \in DOMAIN device_clients :
             /\ tick_log[h] = "ok" => metrics.gauges["device_up"][KeyOf(h)] = 1
             /\ tick_log[h] = "down" => metrics.gauges["device_up"][KeyOf(h)] = 0)
    /\ [][\A h \in Hosts :
             (ProbeSucceededStep(h) /\ KeyOf(h) \in DOMAIN metrics.gauges["device_up"]
                 /\ metrics.gauges["device_up"][KeyOf(h)] = 0) =>
                    \A id \in KnownIds :
                        devices[h][id].kind = "ok" =>
                            <<SensorField(id), KeyOf(h),
                              StoredReading(id, devices[h][id].value)>> \in gather(metrics')
         ]_vars

\* the kitchen device was down in the first tick (the published snapshot
\* says 0) and is folded in the second: the text about to be published
\* says 1 and carries its fresh PM2.5 reading
C18_Witness ==
    /\ ticks = 2
    /\ poll_pc = "publishing"
    /\ tick_log["http://air1-a"] = "ok"
    /\ <<"device_up", <<"kitchen", "http://air1-a">>, 0>> \in shared_metrics
    /\ <<"device_up", <<"kitchen", "http://air1-a">>, 1>> \in metrics_text
    /\ <<"device_up", <<"kitchen", "http://air1-a">>, 0>> \notin metrics_text
    /\ <<"pm2_5_ugm3", <<"kitchen", "http://air1-a">>, 2000>> \in metrics_text
    /\ \A line \in shared_metrics : line[1] = "pm2_5_ugm3" => line[2][2] # "http://air1-a"

\* the series of a store that do not carry the labels of a device key
SeriesOfOthers(m, key) ==
    [f \in MetricFields |->
        [l \in {x \in DOMAIN m.gauges[f] : <<x[1], x[2]>> # key} |-> m.gauges[f][l]]]

\* the tracked AQI label state of the other device keys
StateOfOthers(m, key) ==
    [k \in DOMAIN m.previous_aqi_state \ {key} |-> m.previous_aqi_state[k]]

\* C19 (under Spec): the step that folds a device or marks it down leaves
\* every series and every tracked AQI label state of the other device keys
\* as it was, in every tick; and the store changes in no other step.
C19_OtherDevicesUntouched ==
    [][/\ \A h \in Hosts :
              (ProbeSucceededStep(h) \/ ProbeFailedStep(h)) =>
                  /\ SeriesOfOthers(metrics', KeyOf(h)) = SeriesOfOthers(metrics, KeyOf(h))
                  /\ StateOfOthers(metrics', KeyOf(h)) = StateOfOthers(metrics, KeyOf(h))
       /\ metrics' # metrics =>
              \E h \in Hosts : ProbeSucceededStep(h) \/ ProbeFailedStep(h)
      ]_vars

\* second tick: both devices were Good in the first tick; the kitchen
\* device has just been folded as Moderate and its Good series is gone,
\* the Good series of the office device, not probed yet, is still there
C19_Witness ==
    /\ ticks = 2
    /\ tick_log = ("http://air1-a" :> "ok" @@ "http://air1-b" :> "none")
    /\ <<"aqi_info", <<"kitchen", "http://air1-a", "Good", "PM2.5">>, 100>> \in shared_metrics
    /\ InfoLabels(metrics, <<"kitchen", "http://air1-a">>)
           = {<<"kitchen", "http://air1-a", "Moderate", "PM2.5">>}
    /\ InfoLabels(metrics, <<"office", "http://air1-b">>)
           = {<<"office", "http://air1-b", "Good", "PM2.5">>}
    /\ metrics.previous_aqi_state[<<"office", "http://air1-b">>].category = "Good"
    /\ metrics.gauges["aqi"][<<"office", "http://air1-b">>] = 28

\* the reading a device serves for a channel at this moment (Option)
Served(h, sensor_id) ==
    IF devices[h][sensor_id].kind = "ok" THEN Some(devices[h][sensor_id].value) ELSE None

\* calculate_aqi of the PM2.5 and PM10 readings a device serves
ServedAqi(h) ==
    calculate_aqi(Served(h, "pm__2_5_m_weight_concentration"),
                  Served(h, "pm__10_m_weight_concentration"))

\* C20 (under Spec): when a device is folded and calculate_aqi returns a
\* result r for its PM2.5 / PM10 readings, the store then holds aqi = r.aqi,
\* aqi_pm25 and aqi_pm10 equal to the sub-indices computed, and one
\* aqi_info series of value 1 labelled r.category, r.primary_pollutant;
\* for PM2.5 = 20.0 and PM10 = 30.0 that is aqi 71, sub-indices 71 and 28,
\* Moderate, PM2.5.
C20_AqiSeriesFollowResult ==
    [][\A h \in Hosts :
          (ProbeSucceededStep(h) /\ ServedAqi(h) # None) =>
              LET r    == Unwrap(ServedAqi(h))
                  text == gather(metrics')
              IN  /\ <<"aqi", KeyOf(h), r.aqi>> \in text
                  /\ r.pm25_aqi # None => <<"aqi_pm25", KeyOf(h), Unwrap(r.pm25_aqi)>> \in text
                  /\ r.pm10_aqi # None => <<"aqi_pm10", KeyOf(h), Unwrap(r.pm10_aqi)>> \in text
                  /\ InfoLines(text, KeyOf(h))
                         = {<<"aqi_info",
                              <<NameOf(h), h, as_str(r.category), r.primary_pollutant>>,
                              100>>}
                  /\ (/\ Served(h, "pm__2_5_m_weight_concentration") = Some(2000)
                      /\ Served(h, "pm__10_m_weight_concentration") = Some(3000)) =>
                         /\ <<"aqi", KeyOf(h), 71>> \in text
                         /\ <<"aqi_pm25", KeyOf(h), 71>> \in text
                         /\ <<"aqi_pm10", KeyOf(h), 28>> \in text
                         /\ InfoLabels(metrics', KeyOf(h))
                                = {<<NameOf(h), h, "Moderate", "PM2.5">>}
      ]_vars

\* the office device serves PM2.5 20.0 and PM10 30.0 and has just been
\* folded for the first time: all four AQI vectors carry its series
C20_Witness ==
    /\ ticks = 1
    /\ tick_log["http://air1-b"] = "ok"
    /\ devices["http://air1-b"] = AirModerate
    /\ metrics.gauges["pm2_5_ugm3"][<<"office", "http://air1-b">>] = 2000
    /\ metrics.gauges["pm10_0_ugm3"][<<"office", "http://air1-b">>] = 3000
    /\ metrics.gauges["aqi"][<<"office", "http://air1-b">>] = 71
    /\ metrics.gauges["aqi_pm25"][<<"office", "http://air1-b">>] = 71
    /\ metrics.gauges["aqi_pm10"][<<"office", "http://air1-b">>] = 28
    /\ metrics.gauges["aqi_info"][<<"office", "http://air1-b", "Moderate", "PM2.5">>] = 100

--------------------------------------------------------------------------
(* Claims about the polling task on the clock, checked under SpecTimed *)

\* C12 (under SpecTimed): every tick begins at the instant it was due,
\* whatever the probes of the earlier ticks did, a device whose requests
\* all run until the timeout included.
C12_TicksStartOnSchedule ==
    \A i \in 1..Len(tick_times) : tick_times[i].at = tick_times[i].due

\* the snapshot is written in this step
SnapshotWrittenStep == snapshots' # snapshots \/ shared_metrics' # shared_metrics

\* C13 (under SpecTimed): the snapshot is written at most once per tick,
\* only when every registered device of the tick was probed and no call
\* is in flight, and with the render of the store as it is then; the
\* published String is always the last text written, and a reader gets
\* the String as it is at that moment: the initial empty text or the
\* complete render of some earlier or of the latest finished tick.
C13_SnapshotIsCompleteRender ==
    /\ [](Len(snapshots) - 1 <= IF poll_pc \in {"collecting", "publishing"}
                                THEN ticks - 1 ELSE ticks)
    /\ [](shared_metrics = snapshots[Len(snapshots)])
    /\ [][SnapshotWrittenStep =>
             /\ Unprobed = {}
             /\ todo = {}
             /\ fetching = None
             /\ shared_metrics' = gather(metrics)
             /\ snapshots' = Append(snapshots, gather(metrics))
         ]_vars
    /\ [][scraped' # scraped =>
             /\ scraped' = Some(shared_metrics)
             /\ shared_metrics' = shared_metrics
         ]_vars
    /\ [](scraped # None =>
             \E i \in 1..Len(snapshots) : Unwrap(scraped) = snapshots[i])

\* second tick, the kitchen device already folded as Moderate, the office
\* device not yet: a reader has just been served the snapshot of the
\* first tick, which shows both devices as they were folded then
C13_Witness ==
    /\ ticks = 2
    /\ poll_pc = "collecting"
    /\ tick_log = ("http://air1-a" :> "ok" @@ "http://air1-b" :> "none")
    /\ Len(snapshots) = 2
    /\ scraped = Some(shared_metrics)
    /\ <<"aqi", <<"kitchen", "http://air1-a">>, 28>> \in Unwrap(scraped)
    /\ <<"device_up", <<"office", "http://air1-b">>, 1>> \in Unwrap(scraped)
    /\ <<"aqi", <<"kitchen", "http://air1-a">>, 71>> \in gather(metrics)
    /\ <<"aqi", <<"kitchen", "http://air1-a">>, 71>> \notin Unwrap(scraped)

\* a tick begins in this step
TickBeginsStep == ticks' # ticks

\* C15 (under SpecTimed): a tick begins only when the polling task is
\* waiting at interval.tick(): no probe is in flight, no device of the
\* previous tick is left, the registry lock is free, and the previous
\* tick has written its snapshot or failed to render; a tick that is late
\* begins no earlier than that either.
C15_TicksNeverOverlap ==
    /\ [][TickBeginsStep =>
             /\ poll_pc = "sleeping"
             /\ fetching = None
             /\ todo = {}
             /\ clients_lock = "free"
             /\ ticks > 0 => Unprobed = {}
             /\ ticks' = ticks + 1
         ]_vars
    /\ [](fetching # None => poll_pc = "collecting" /\ Unwrap(fetching) \in todo)
    /\ [](poll_pc \in {"first_tick", "sleeping", "publishing"} => todo = {})

\* the second tick was due while the first was still waiting for a device
\* that does not answer; it began after the first had published
C15_Witness ==
    /\ ticks = 2
    /\ poll_pc = "collecting"
    /\ tick_times[2].at > tick_times[2].due
    /\ Len(snapshots) = 2
    /\ shared_metrics # {}
    /\ todo = DOMAIN device_clients

\* C16 (under SpecTimed): until one full poll period has passed since the
\* polling task was spawned no tick has begun, no get_status call was
\* made, the store is empty, and the snapshot and whatever a reader was
\* served are the initial empty text; the first tick begins exactly one
\* period after the spawn.
C16_NothingBeforeOnePeriod ==
    /\ now < poll_interval =>
           /\ ticks = 0
           /\ tick_times = <<>>
           /\ fetching = None
           /\ metrics = NewMetrics
           /\ shared_metrics = {}
           /\ snapshots = << {} >>
           /\ scraped # None => scraped = Some({})
    /\ ticks = 0 => (fetching = None /\ metrics = NewMetrics /\ shared_metrics = {})
    /\ tick_times # <<>> => tick_times[1] = [due |-> poll_interval, at |-> poll_interval]

\* the first tick has begun, one period after the spawn, and its first
\* get_status call is in flight; a reader has been served the empty text
C16_Witness ==
    /\ now = poll_interval
    /\ ticks = 1
    /\ fetching # None
    /\ scraped = Some({})
    /\ shared_metrics = {}

\* C17 (under SpecTimed): the registry lock is not held while a get_status
\* call is in flight.
C17_LockFreeWhileFetching ==
    fetching # None => clients_lock = "free"

\* the channel ids of a status that the match of update_device knows
Recognised(status) == {id \in DOMAIN status.sensors : SensorField(id) # "unknown"}

\* the status without its unrecognised readings
RecognisedOnly(status) ==
    [sensors     |-> [id \in Recognised(status) |-> status.sensors[id]],
     device_name |-> status.device_name]

\* the fields update_device may write for a status
FieldsOf(status) ==
    {"device_up", "aqi", "aqi_pm25", "aqi_pm10", "aqi_info"}
        \cup {SensorField(id) : id \in Recognised(status)}

\* C22 (under SpecStore): on every store the updater can be called on and
\* for every status, update_device gives the store it gives for the status
\* without its unrecognised readings: they create and change no series;
\* every recognised reading of the status is stored, device_up is 1, and
\* no vector other than those of the recognised readings, device_up and
\* the AQI vectors is touched.
C22_UnknownChannelDropped ==
    upd.pc = "idle" =>
        \A host \in Hosts : \A status \in StatusesOf(host) :
            LET after == update_device(metrics, host, status)
                key   == <<status.device_name, host>>
            IN  /\ after = update_device(metrics, host, RecognisedOnly(status))
                /\ <<"device_up", key, 1>> \in gather(after)
                /\ \A id \in Recognised(status) :
                       <<SensorField(id), key, StoredReading(id, status.sensors[id].value)>>
                           \in gather(after)
                /\ \A f \in MetricFields \ FieldsOf(status) :
                       after.gauges[f] = metrics.gauges[f]

\* update_device was called on the new store with the status that
\* carries uptime and co2 = 610: the store holds device_up and co2_ppm of
\* the kitchen device and nothing else
C22_Witness ==
    /\ upd = [pc |-> "idle", calls |-> 1]
    /\ gather(metrics) = {<<"device_up", <<"kitchen", "http://air1-a">>, 1>>,
                          <<"co2_ppm", <<"kitchen", "http://air1-a">>, 61000>>}
    /\ \E status \in StatusesOf("http://air1-a") :
           /\ "uptime" \in DOMAIN status.sensors \ Recognised(status)
           /\ metrics = update_device(NewMetrics, "http://air1-a", status)

\* a get_status call for host h begins in this step
ProbeBeginsStep(h) == fetching # Some(h) /\ fetching' = Some(h)

\* C23 (under SpecTimed): within a tick a get_status call begins only for
\* a registered device that this tick has not probed yet, and it is over
\* when the device is logged as probed, failed or not; the call requests
\* each of the catalog channels exactly once; a device probed in this
\* tick is open for a probe again only when the next tick begins.
C23_NoRetryWithinTick ==
    /\ [][\A h \in Hosts :
             ProbeBeginsStep(h) =>
                 /\ poll_pc = "collecting"
                 /\ h \in todo
                 /\ tick_log[h] = "none"
         ]_vars
    /\ [][\A h \in Hosts :
             (tick_log[h] = "none" /\ tick_log'[h] # "none") =>
                 /\ fetching = Some(h)
                 /\ fetching' = None
                 /\ todo' = todo \ {h}
         ]_vars
    /\ [][\A h \in Hosts :
             (tick_log[h] # "none" /\ tick_log'[h] # tick_log[h]) => TickBeginsStep
         ]_vars
    /\ [](\A h \in Hosts :
             fetching = Some(h) =>
                 LET call == get_status(devices[h], device_clients[h])
                 IN  /\ Len(call.requests) = Len(KNOWN_SENSORS)
                     /\ \A id \in KnownIds :
                            Cardinality({i \in 1..Len(call.requests) :
                                            call.requests[i] = id}) = 1)

\* the kitchen device failed its probe in the first tick (device_up 0 was
\* published); its next get_status call is in flight in the second tick
C23_Witness ==
    /\ ticks = 2
    /\ fetching = Some("http://air1-a")
    /\ tick_log["http://air1-a"] = "none"
    /\ <<"device_up", <<"kitchen", "http://air1-a">>, 0>> \in shared_metrics
    /\ metrics.gauges["device_up"][<<"kitchen", "http://air1-a">>] = 0

--------------------------------------------------------------------------
(* Claims about the text functions, checked under SpecText *)

TextReturned == fn_out[1] = "returned"

\* the positions at which pat occurs in s
Occurrences(s, pat) ==
    {p \in 1..(Len(s) - Len(pat) + 1) : SubSeq(s, p, p + Len(pat) - 1) = pat}

\* the text of s that follows the first occurrence of pat
TextAfterFirst(s, pat) ==
    LET p == CHOOSE x \in Occurrences(s, pat) : \A y \in Occurrences(s, pat) : x <= y
    IN  SubSeq(s, p + Len(pat), Len(s))

\* u is t without its leading and trailing white space
IsTrimOf(u, t) ==
    \E i \in 1..(Len(t) + 1) : \E j \in 0..Len(t) :
        /\ u = SubSeq(t, i, j)
        /\ \A k \in 1..(i - 1) : t[k] \in WhiteSpace
        /\ \A k \in (j + 1)..Len(t) : t[k] \in WhiteSpace
        /\ u # <<>> => (u[1] \notin WhiteSpace /\ u[Len(u)] \notin WhiteSpace)

\* the entries of the unit chain whose text occurs in s
UnitsContained(s) == {i \in 1..Len(UnitChain) : Occurrences(s, UnitChain[i][1]) # {}}

\* C24: extract_unit(state, value) is the trimmed text after the first
\* occurrence in state of the exact rendering of value; if there is none,
\* after the first occurrence of its one-decimal rendering; if there is
\* none either, the first known unit of the chain whose text occurs in
\* state (for the text " s" the unit "s"), or the empty string.
\* ("450 ppm", 450.0) gives "ppm" and ("-62 dBm", -62.0) gives "dBm".
C24_ExtractUnit ==
    (fn_in.fn = "extract_unit" /\ TextReturned) =>
        LET state  == fn_in.state
            unit   == fn_out[2]
            exact  == FormatDisplay(fn_in.value)
            onedec == FormatOneDecimal(fn_in.value)
        IN  /\ Occurrences(state, exact) # {} =>
                   IsTrimOf(unit, TextAfterFirst(state, exact))
            /\ (Occurrences(state, exact) = {} /\ Occurrences(state, onedec) # {}) =>
                   IsTrimOf(unit, TextAfterFirst(state, onedec))
            /\ (Occurrences(state, exact) = {} /\ Occurrences(state, onedec) = {}) =>
                   unit = IF UnitsContained(state) = {} THEN <<>>
                          ELSE UnitChain[CHOOSE i \in UnitsContained(state) :
                                            \A j \in UnitsContained(state) : i <= j][2]
            /\ (state = <<"4", "5", "0", " ", "p", "p", "m">> /\ fn_in.value = 45000) =>
                   unit = <<"p", "p", "m">>
            /\ (state = <<"-", "6", "2", " ", "d", "B", "m">> /\ fn_in.value = -6200) =>
                   unit = <<"d", "B", "m">>

\* ("1013.2 hPa", 1013.25): the exact rendering 1013.25 does not occur,
\* the one-decimal rendering 1013.2 does
C24_Witness ==
    /\ TextReturned
    /\ fn_in.fn = "extract_unit"
    /\ fn_in.state = <<"1", "0", "1", "3", ".", "2", " ", "h", "P", "a">>
    /\ fn_in.value = 101325
    /\ fn_out[2] = <<"h", "P", "a">>

DecimalDigits == {"0", "1", "2", "3", "4", "5", "6", "7", "8", "9"}

\* a URL without its http:// or https:// scheme
WithoutScheme(url) ==
    IF starts_with(url, HttpScheme) THEN SubSeq(url, Len(HttpScheme) + 1, Len(url))
    ELSE IF starts_with(url, HttpsScheme) THEN SubSeq(url, Len(HttpsScheme) + 1, Len(url))
    ELSE url

\* the positions of a ':' that is followed by digits only, up to the end
PortSuffixes(s) ==
    {k \in 1..(Len(s) - 1) : s[k] = ":" /\ \A j \in (k + 1)..Len(s) : s[j] \in DecimalDigits}

\* a host without its :port suffix
WithoutPort(s) ==
    IF PortSuffixes(s) = {} THEN s
    ELSE SubSeq(s, 1, (CHOOSE k \in PortSuffixes(s) : TRUE) - 1)

\* C25: get_device_names returns one <<host, name>> per configured host,
\* in configuration order; the name is the configured name of the same
\* index if there is one, else the host without its scheme and without
\* its :port suffix.
C25_DeviceNames ==
    (fn_in.fn = "get_device_names" /\ TextReturned) =>
        LET hosts == fn_in.hosts
            names == fn_in.names
            pairs == fn_out[2]
        IN  /\ DOMAIN pairs = 1..Len(hosts)
            /\ \A i \in 1..Len(hosts) :
                   pairs[i] = <<hosts[i],
                                IF names # None /\ i <= Len(Unwrap(names))
                                THEN Unwrap(names)[i]
                                ELSE WithoutPort(WithoutScheme(hosts[i]))>>

--------------------------------------------------------------------------
(* Claims about the device registry, checked under Spec *)

\* C27: every insertion into the device registry happens in the setup
\* loop, before the polling task is spawned; once the task is spawned the
\* setup loop is over and the registry is read but never inserted into
\* or removed from.
C27_RegistrySetBeforePolling ==
    /\ [](poll_pc # "not_spawned" => setup_i > Len(ConfiguredDevices))
    /\ [][device_clients' # device_clients =>
              /\ poll_pc = "not_spawned"
              /\ poll_pc' = "not_spawned"
              /\ \E host \in Hosts \ DOMAIN device_clients :
                     device_clients' = MapPut(device_clients, host, NameOf(host))]_vars
    /\ [][poll_pc # "not_spawned" => device_clients' = device_clients]_vars

\* both devices were registered during setup and the polling task is
\* iterating over the registry
C27_Witness ==
    /\ poll_pc = "collecting"
    /\ DOMAIN device_clients = Hosts
    /\ todo # {}
    /\ todo \subseteq DOMAIN device_clients

--------------------------------------------------------------------------
(* Claims about scrapes during outages, checked under SpecTimed *)

\* every registered device failed its probe in the current tick
AllDownTick == \A h \in DOMAIN device_clients : tick_log[h] = "down"

\* the sample lines of a text other than those of device_up
ValuesOf(text) == {line \in text : line[1] # "device_up"}

\* C28: a scrape can be served in every state, whatever the devices do,
\* and returns the most recently published snapshot (the initial empty
\* text before the first publication); the snapshot published by a tick
\* in which every device failed shows device_up = 0 for every device and,
\* when every earlier tick published too, the same values as the
\* snapshot before it, so scrapes keep returning the last-known values.
C28_ScrapeServedInOutage ==
    /\ [](ENABLED Scrape)
    /\ [](Len(snapshots) >= 1 /\ snapshots[1] = {})
    /\ [][scraped' # scraped => scraped' = Some(snapshots[Len(snapshots)])]_vars
    /\ [][(snapshots' # snapshots /\ AllDownTick) =>
              LET new == snapshots'[Len(snapshots')]
                  old == snapshots[Len(snapshots)]
              IN  /\ \A h \in DOMAIN device_clients :
                         <<"device_up", <<device_clients[h], h>>, 0>> \in new
                  /\ Len(snapshots) = ticks => ValuesOf(new) = ValuesOf(old)
         ]_vars

\* second tick, both devices out (one refuses connections, one hangs):
\* a reader is served the snapshot of that tick, which shows both devices
\* down and still the CO2 reading and the AQI of the first tick
C28_Witness ==
    /\ ticks = 2
    /\ poll_pc = "sleeping"
    /\ devices["http://air1-a"] = Hung
    /\ devices["http://air1-b"] = Unreachable
    /\ AllDownTick
    /\ Len(snapshots) = 3
    /\ scraped = Some(snapshots[3])
    /\ <<"device_up", <<"kitchen", "http://air1-a">>, 0>> \in Unwrap(scraped)
    /\ <<"device_up", <<"office", "http://air1-b">>, 0>> \in Unwrap(scraped)
    /\ <<"co2_ppm", <<"kitchen", "http://air1-a">>, 45000>> \in Unwrap(scraped)
    /\ <<"aqi", <<"office", "http://air1-b">>, 28>> \in Unwrap(scraped)

--------------------------------------------------------------------------
(* Claims about registration at startup, checked under Spec *)

\* the connection test of this device returns Ok(true)
PassesConnectionTest(dev) == test_connection(dev).result = <<"Ok", TRUE>>

\* the setup loop is past this host and did not register it
LeftOut(h) ==
    /\ \E i \in 1..(setup_i - 1) : i <= Len(ConfiguredDevices) /\ ConfiguredDevices[i][1] = h
    /\ h \notin DOMAIN device_clients

\* the sample lines of a text that carry this host label
LinesOf(text, h) == {line \in text : line[2][2] = h}

\* C31: a configured device whose connection test at startup does not
\* return Ok(true) is not registered, and stays unregistered whatever it
\* answers later; it is in no tick's work list, no probe of it is
\* recorded, and neither the store nor the published snapshot has any
\* line for it, device_up included.
C31_FailedDeviceLeftOut ==
    /\ [][setup_i' # setup_i =>
              LET host == ConfiguredDevices[setup_i][1]
              IN  (host \in DOMAIN device_clients') <=> PassesConnectionTest(devices[host])
         ]_vars
    /\ [][\A h \in Hosts : LeftOut(h) => LeftOut(h)']_vars
    /\ [](\A h \in Hosts : LeftOut(h) =>
              /\ h \notin todo
              /\ tick_log[h] = "none"
              /\ LinesOf(gather(metrics), h) = {}
              /\ LinesOf(shared_metrics, h) = {}
              /\ LinesOf(metrics_text, h) = {})

\* the kitchen device failed the connection test and answers now; two
\* ticks are over and the snapshot shows the office device only
C31_Witness ==
    /\ LeftOut("http://air1-a")
    /\ devices["http://air1-a"] = AirGood
    /\ "http://air1-b" \in DOMAIN device_clients
    /\ ticks = 2
    /\ poll_pc = "sleeping"
    /\ LinesOf(shared_metrics, "http://air1-b") # {}
    /\ LinesOf(shared_metrics, "http://air1-a") = {}

--------------------------------------------------------------------------
(* Claims relating the connection test and the probe, checked under *)
(* SpecProbe: the device answers both calls in the same way          *)

\* C32: a device that passes the connection test (Ok(true)) and keeps
\* serving the same channels is probed successfully: get_status returns
\* Ok, so the device is not marked down.
C32_TestedDeviceProbesOk ==
    (probe_out[1] = "test_connection" /\ probe_out[2].result = <<"Ok", TRUE>>) =>
        get_status(probe_dev, "air1").result[1] = "Ok"

\* C33: a device for which get_status returns Ok, that is one serving at
\* least one catalog channel, passes the connection test with Ok(true).
C33_ProbedDevicePassesTest ==
    (probe_out[1] = "get_status" /\ probe_out[2].result[1] = "Ok") =>
        /\ ServedKnown # {}
        /\ test_connection(probe_dev).result = <<"Ok", TRUE>>

--------------------------------------------------------------------------
(* Claims about what a fold leaves alone, checked under Spec *)

KeptFields == MetricFields \ {"aqi_info"}

\* every series of field f keeps its value in this step
FieldUntouched(f) ==
    \A l \in DOMAIN metrics.gauges[f] :
        /\ l \in DOMAIN metrics'.gauges[f]
        /\ metrics'.gauges[f][l] = metrics.gauges[f][l]

\* C34: no step removes a series of a field other than aqi_info, and
\* every series of the store is a line of its render; a successful fold
\* leaves the series of every channel for which it has no reading, and
\* those of aqi, aqi_pm25 and aqi_pm10 for which it has no result or no
\* sub-index, at their last written value.
C34_SeriesStay ==
    /\ [][\A f \in KeptFields :
              DOMAIN metrics.gauges[f] \subseteq DOMAIN metrics'.gauges[f]]_vars
    /\ [](\A f \in KeptFields : \A l \in DOMAIN metrics.gauges[f] :
              <<f, l, metrics.gauges[f][l]>> \in gather(metrics))
    /\ [][\A h \in Hosts : ProbeSucceededStep(h) =>
              /\ \A id \in KnownIds :
                     Served(h, id) = None => FieldUntouched(SensorField(id))
              /\ ServedAqi(h) = None => FieldUntouched("aqi")
              /\ (\A r \in ServedAqi(h) : r.pm25_aqi = None) => FieldUntouched("aqi_pm25")
              /\ (\A r \in ServedAqi(h) : r.pm10_aqi = None) => FieldUntouched("aqi_pm10")
         ]_vars

\* the kitchen device was folded as Moderate (PM2.5 20.0, PM10 30.0) in
\* the first tick and as Good (PM2.5 5.0, no PM10 reading) in the second:
\* the PM10 series and its sub-index are those of the first tick
C34_Witness ==
    /\ ticks = 2
    /\ tick_log["http://air1-a"] = "ok"
    /\ devices["http://air1-a"] = AirGood
    /\ metrics.gauges["pm2_5_ugm3"][<<"kitchen", "http://air1-a">>] = 500
    /\ metrics.gauges["aqi"][<<"kitchen", "http://air1-a">>] = 28
    /\ metrics.gauges["aqi_pm25"][<<"kitchen", "http://air1-a">>] = 28
    /\ <<"kitchen", "http://air1-a">> \in DOMAIN metrics.gauges["pm10_0_ugm3"]
    /\ metrics.gauges["pm10_0_ugm3"][<<"kitchen", "http://air1-a">>] = 3000
    /\ <<"aqi_pm10", <<"kitchen", "http://air1-a">>, 28>> \in gather(metrics)

AqiFields == {"aqi", "aqi_pm25", "aqi_pm10", "aqi_info"}

\* C35: a successful fold whose readings give no AQI result leaves every
\* series of aqi, aqi_pm25, aqi_pm10 and aqi_info and the tracked
\* (category, primary_pollutant) states as they were, sets device_up of
\* the device to 1 and writes every catalog reading of the status into
\* its series.
C35_NoResultLeavesAqi ==
    [][\A h \in Hosts : (ProbeSucceededStep(h) /\ ServedAqi(h) = None) =>
           /\ \A f \in AqiFields : metrics'.gauges[f] = metrics.gauges[f]
           /\ metrics'.previous_aqi_state = metrics.previous_aqi_state
           /\ <<"device_up", KeyOf(h), 1>> \in gather(metrics')
           /\ \A id \in KnownIds : \A v \in Served(h, id) :
                  <<SensorField(id), KeyOf(h), StoredReading(id, v)>> \in gather(metrics')
      ]_vars

\* the kitchen device was folded as Moderate in the first tick and serves
\* only its temperature in the second: the AQI series and the tracked
\* state are those of the first tick, the device is up, the temperature
\* is stored
C35_Witness ==
    /\ ticks = 2
    /\ tick_log["http://air1-a"] = "ok"
    /\ devices["http://air1-a"] = OnlyTemperature
    /\ <<"device_up", <<"kitchen", "http://air1-a">>, 1>> \in gather(metrics)
    /\ <<"temperature_celsius", <<"kitchen", "http://air1-a">>, 2250>> \in gather(metrics)
    /\ <<"aqi", <<"kitchen", "http://air1-a">>, 71>> \in gather(metrics)
    /\ <<"aqi_pm25", <<"kitchen", "http://air1-a">>, 71>> \in gather(metrics)
    /\ <<"aqi_pm10", <<"kitchen", "http://air1-a">>, 28>> \in gather(metrics)
    /\ <<"aqi_info", <<"kitchen", "http://air1-a", "Moderate", "PM2.5">>, 100>> \in gather(metrics)
    /\ <<"kitchen", "http://air1-a">> \in DOMAIN metrics.previous_aqi_state

==========================================================================
